---- MODULE Spec2Model ----
(***************************************************************************)
(* Model of the reconciliation core of uabean:                             *)
(*   - hooks.detect_transfers, the cross-statement transfer detector;      *)
(*   - Importer.merge_entries of the Alfa, Ukrsib and Procredit business   *)
(*     importers, the same-statement entry merger;                         *)
(*   - the lot tracker, the extraction and the dividend merge of the IBKR  *)
(*     importer;                                                           *)
(*   - the balance assertions of the Privatbank and Monobank importers.    *)
(* Money amounts are integers in minor units (1/100 of the currency unit), *)
(* so 10000 is 100.00.  Python objects that several lists share (the       *)
(* transactions) live in an object store keyed by the line number that     *)
(* data.new_metadata puts in their meta, which is what makes two           *)
(* transactions of one batch compare unequal.                              *)
(***************************************************************************)
EXTENDS Integers, Sequences, FiniteSets, TLC

VARIABLES
    mode,               \* which part of the program the batch runs
    pc,                 \* "ready" before the call, "done" after it
    t_input,            \* detect_transfers: the arguments as passed in
    extracted,          \* detect_transfers: per file, the list new_entries
    entry,              \* detect_transfers: object store, id -> entry
    possible_transfers, \* detect_transfers: key -> list of (v, entry)
    t_log,              \* history: one record per Transaction processed
    provider,           \* merge_entries: "alfa", "ukrsib" or "procredit"
    m_input,            \* merge_entries: the entries as passed in
    entries,            \* merge_entries: the list entries (ids)
    txn,                \* merge_entries: object store, id -> transaction
    m_err,              \* merge_entries: "" or the exception it raised
    m_log,              \* history: one record per merge and per splice
    holdings_map,       \* ibkr: the importer's lot map
    l_log,              \* history: one record per call of a lot method
    use_existing_holdings, \* ibkr: the constructor's flag
    statement,          \* ibkr: the statement file of the batch
    ledger,             \* ibkr: the postings of the user's ledger
    x_log,              \* history: one record per call of extract
    b_call,             \* bank importers: the last extract call and its result
    d_call              \* ibkr: the last merge_dividend_and_withholding call

hookVars == <<t_input, extracted, entry, possible_transfers, t_log>>

mergeVars == <<provider, m_input, entries, txn, m_err, m_log>>

lotVars == <<holdings_map, l_log>>

extractVars == <<use_existing_holdings, statement, ledger, x_log>>

vars == <<mode, pc, hookVars, mergeVars, lotVars, extractVars, b_call, d_call>>

(***************************************************************************)
(* Bounds and input domains                                                *)
(***************************************************************************)
MaxEntries == 3

NoTime == <<>>

Abs(x) == IF x < 0 THEN -x ELSE x

Min(S) == CHOOSE x \in S : \A y \in S : x <= y

Posting(account, number) == [account |-> account, number |-> number]

Txn(date, time, postings) ==
    [kind |-> "Transaction", date |-> date, time |-> time, postings |-> postings]

\* A non-Transaction entry (a balance assertion); detect_transfers skips it.
BalanceEntry == [kind |-> "Balance", date |-> 1, time |-> NoTime, postings |-> <<>>]

Amounts == {0, 10000, -10000, -9950, -8000, -10150}

\* Entries that vary in account and amount, all of one key.
AmountEntries ==
    { Txn(1, NoTime, <<Posting(a, n)>>) : a \in {"A", "B"}, n \in Amounts }
    \cup { Txn(1, NoTime, <<Posting("A", 10000), Posting("F", -2000)>>) }
    \cup { BalanceEntry }

\* Recorded times of day: "HH:MM" is <<h, m>>, "HH:MM:SS" is <<h, m, s>>.
DateTimes ==
    { <<1, t>> : t \in { NoTime, <<0, 30>>, <<0, 40>>, <<1, 30>>, <<23, 45>>,
                         <<12, 29, 59>> } }
    \cup { <<2, NoTime>>, <<2, <<0, 40>>>> }

\* Entries that vary in date and time, with amounts that always match.
KeyEntries ==
    { Txn(dt[1], dt[2], <<Posting(p[1], p[2])>>) :
        dt \in DateTimes, p \in { <<"A", 10000>>, <<"B", -10000>> } }

(***************************************************************************)
(* hooks.py                                                                *)
(***************************************************************************)
HourSecs == 3600

\* Python's round(num / den, 0) for num >= 0, den > 0: ties go to the even
\* integer.
RoundHalfEven(num, den) ==
    LET q == num \div den
        r == num % den
    IN  IF 2 * r < den THEN q
        ELSE IF 2 * r > den THEN q + 1
        ELSE IF q % 2 = 0 THEN q ELSE q + 1

\* Mutant: the time truncated to the hour it lies in.
to_nearest_time_truncating(ts) ==
    LET ts2  == IF Len(ts) = 2 THEN Append(ts, 0) ELSE ts
        secs == ts2[3] + ts2[2] * 60 + ts2[1] * 60 * 60
        rtm  == (secs \div HourSecs) * HourSecs
    IN  << (rtm \div 3600) % 24, (rtm \div 60) % 60, rtm % 60 >>

\* to_nearest_time(ts, unit="hour", rnd=1, frm="%H:%M:%S"); the result
\* string "HH:MM:SS" is <<HH, MM, SS>>.
to_nearest_time(ts) ==
    LET ts2  == IF Len(ts) = 2 THEN Append(ts, 0) ELSE ts
        rnd  == 1 * HourSecs
        secs == ts2[3] + ts2[2] * 60 + ts2[1] * 60 * 60
        rtm  == RoundHalfEven(secs, rnd) * rnd
    IN  << (rtm \div 3600) % 24, (rtm \div 60) % 60, rtm % 60 >>

RECURSIVE SumNumbers(_)
SumNumbers(ps) == IF ps = <<>> THEN 0 ELSE Head(ps).number + SumNumbers(Tail(ps))

get_transfer_info(e) ==
    LET time == IF e.time # NoTime THEN to_nearest_time(e.time) ELSE <<0, 0, 0>>
    IN  [k |-> <<e.date, time>>, v |-> SumNumbers(e.postings)]

\* round(abs(abs(v1 / v2) - 1), 2) in hundredths.  The Decimal quotient is
\* exact to 28 digits, which cannot move an amount of this size across a
\* rounding boundary, so the rounding is taken of the exact ratio.
RelDiffHundredths(v1, v2) ==
    RoundHalfEven(100 * Abs(Abs(v1) - Abs(v2)), Abs(v2))

are_values_oposit(v1, v2) ==
    IF (v1 > 0 /\ v2 > 0) \/ (v1 < 0 /\ v2 < 0) THEN FALSE
    ELSE IF v2 = 0 THEN FALSE
    ELSE RelDiffHundredths(v1, v2) <= 1

Accounts(ps) == { ps[i].account : i \in DOMAIN ps }

same_accounts(ps1, ps2) == Accounts(ps1) = Accounts(ps2)

\* Mutant: the absorbed postings put in front.
merge_transactions_prepending(ps1, ps2) == ps2 \o ps1

\* Mutant: the absorbed postings are not taken over.
merge_transactions_dropping(ps1, ps2) == ps1

merge_transactions(ps1, ps2) == ps1 \o ps2

\* list.remove(x): drops the first element equal to x.
ListRemove(lst, x) ==
    LET i == Min({ j \in DOMAIN lst : lst[j] = x })
    IN  SubSeq(lst, 1, i - 1) \o SubSeq(lst, i + 1, Len(lst))

InList(lst, x) == \E j \in DOMAIN lst : lst[j] = x

\* defaultdict(list): a key that was never touched reads as the empty list.
Lookup(pt, k) == IF k \in DOMAIN pt THEN pt[k] ELSE <<>>

\* The inner loop of detect_transfers: the index of the first candidate under
\* the key that passes the test, 0 when there is none.
FirstMatch(cands, v, ps, store) ==
    LET ok == { j \in DOMAIN cands :
                  /\ are_values_oposit(v, cands[j].v)
                  /\ ~same_accounts(store[cands[j].e].postings, ps) }
    IN  IF ok = {} THEN 0 ELSE Min(ok)

\* One pass of the body of "for entry in new_entries[:]" for entry id e of
\* file f.
ProcessEntry(st, f, e) ==
    IF st.entry[e].kind # "Transaction" THEN st
    ELSE
      LET info  == get_transfer_info(st.entry[e])
          cands == Lookup(st.possible_transfers, info.k)
          j     == FirstMatch(cands, info.v, st.entry[e].postings, st.entry)
          seen  == [ c \in DOMAIN cands |->
                       [e |-> cands[c].e, v |-> cands[c].v,
                        postings |-> st.entry[cands[c].e].postings] ]
          rec   == [e |-> e, k |-> info.k, v |-> info.v, cands |-> seen,
                    into |-> IF j = 0 THEN 0 ELSE cands[j].e]
          keys  == DOMAIN st.possible_transfers \cup {info.k}
      IN  IF j # 0
          THEN [st EXCEPT
                  !.entry[cands[j].e].postings =
                      merge_transactions(@, st.entry[e].postings),
                  !.extracted[f] = ListRemove(@, e),
                  !.possible_transfers =
                      [kk \in keys |-> Lookup(st.possible_transfers, kk)],
                  !.log = Append(@, rec)]
          ELSE [st EXCEPT
                  !.possible_transfers =
                      [kk \in keys |->
                          IF kk = info.k
                          THEN Append(cands, [v |-> info.v, e |-> e])
                          ELSE Lookup(st.possible_transfers, kk)],
                  !.log = Append(@, rec)]

\* "for entry in new_entries[:]": the loop runs over a copy made when the
\* file's turn comes, from position i on.
RECURSIVE FileLoop(_, _, _, _)
FileLoop(st, f, copy, i) ==
    IF i > Len(copy) THEN st
    ELSE FileLoop(ProcessEntry(st, f, copy[i]), f, copy, i + 1)

\* "for filename, new_entries, account, importer in extracted".
RECURSIVE detect_loop(_, _)
detect_loop(st, f) ==
    IF f > Len(st.extracted) THEN st
    ELSE detect_loop(FileLoop(st, f, st.extracted[f], 1), f + 1)

detect_transfers(ex, store) ==
    detect_loop([extracted |-> ex, entry |-> store,
                 possible_transfers |-> <<>>, log |-> <<>>], 1)

(***************************************************************************)
(* Importer.merge_entries (alfa_business, ukrsib_business,                 *)
(* procredit_business)                                                     *)
(***************************************************************************)
MaxRows == 4

Providers == {"alfa", "ukrsib", "procredit"}

NoConv == <<>>

NoPrice == <<>>

None == 0

fee_account == "Fees"

Amount(number, currency) == [number |-> number, currency |-> currency]

\* Amount.__neg__
NegAmount(a) == Amount(-a.number, a.currency)

\* data.Posting(account, units, None, price, None, None)
MPosting(account, units, price) ==
    [account |-> account, units |-> units, price |-> price]

\* What currency_conversion_regex captures from a conversion purpose text:
\* 1000.00 USD sold at the rate 38.50, bank fee 5.00 (rate in hundredths).
ConvMatch == [amount |-> 100000, currency |-> "USD", rate |-> 3850, fee |-> 500]

\* get_entry_from_row: one posting for the row's amount, and a second one on
\* the fee account when the purpose matches a fee pattern.
RowEntry(date, doc, purpose, number, currency, isFee) ==
    [date |-> date, src_doc_n |-> doc, src_purpose |-> purpose,
     other_src_doc_n |-> None,
     postings |->
        <<MPosting("Cash:" \o currency, Amount(number, currency), NoPrice)>>
        \o (IF isFee
            THEN <<MPosting(fee_account, NegAmount(Amount(number, currency)), NoPrice)>>
            ELSE <<>>)]

\* The rows of a statement: plain credits and debits, the credit of a
\* currency sale (its purpose names the sold amount) and the debit of the
\* sold currency.
RowKinds(date, doc) ==
    { RowEntry(date, doc, NoConv, 5000, "UAH", FALSE),
      RowEntry(date, doc, NoConv, -5000, "UAH", FALSE),
      RowEntry(date, doc, ConvMatch, 5000, "UAH", FALSE),
      RowEntry(date, doc, NoConv, -100000, "USD", FALSE) }

\* Two document ids on the first date, a debit of the sold currency that
\* also carries a fee posting, and a sale and its debit on a second date.
Rows ==
    UNION { RowKinds(1, doc) : doc \in {"D1", "D2"} }
    \cup { RowEntry(1, "D1", NoConv, -100000, "USD", TRUE),
           RowEntry(2, "D1", ConvMatch, 5000, "UAH", FALSE),
           RowEntry(2, "D1", NoConv, -100000, "USD", FALSE) }

\* find_closest(lst, other, predicate) of merge_entries: the first element
\* that is not other and satisfies the predicate, or None; the predicate is
\* given as the set of the elements that satisfy it.
find_closest(lst, other, predicate) ==
    LET ok == { j \in DOMAIN lst : lst[j] # other /\ lst[j] \in predicate }
    IN  IF ok = {} THEN None ELSE lst[Min(ok)]

\* The predicate of the document-id search for e.
SameDocument(prov, store, e, x) ==
    /\ store[x].src_doc_n = store[e].src_doc_n
    /\ prov = "procredit" =>
         store[x].postings[1].units = NegAmount(store[e].postings[1].units)

\* "for e in subentries" of the document-id step; i is the position the list
\* iterator is at, and the list shrinks under it.
RECURSIVE MergeSameDocument(_, _, _)
MergeSameDocument(prov, st, i) ==
    IF st.err # "" \/ i > Len(st.sub) THEN st
    ELSE
      LET e     == st.sub[i]
          other == find_closest(st.sub, e,
                     { x \in DOMAIN st.txn : SameDocument(prov, st.txn, e, x) })
      IN  IF other = None THEN MergeSameDocument(prov, st, i + 1)
          ELSE IF ~InList(st.entries, other)
          THEN [st EXCEPT !.err = "ValueError"]
          ELSE MergeSameDocument(prov,
                 [st EXCEPT
                    !.entries = ListRemove(@, other),
                    !.sub = IF prov = "procredit"
                            THEN ListRemove(ListRemove(@, e), other)
                            ELSE ListRemove(@, e),
                    !.txn[e].postings = @ \o st.txn[other].postings,
                    !.log = Append(@, [step |-> "doc", e |-> e, other |-> other])],
                 i + 1)

\* The price put on the counter-posting: D(rate) for alfa and procredit,
\* D(rate) / 100 for ukrsib; a fraction of the currency unit.
ConvPrice(prov, m) ==
    [number |-> [num |-> m.rate,
                 den |-> IF prov = "ukrsib" THEN 100 * 100 ELSE 100],
     currency |-> "UAH"]

\* Mutant: the fee posting put before the primary's own postings.
Splice_fee_first(prov, m, ps, otherPs) ==
    <<[otherPs[1] EXCEPT !.price = ConvPrice(prov, m)]>>
    \o (IF prov = "alfa"
        THEN <<MPosting(fee_account, Amount(m.fee, "UAH"), NoPrice)>>
        ELSE <<>>)
    \o ps
    \o Tail(otherPs)

\* The posting list of e after the splice of other into it.
Splice(prov, m, ps, otherPs) ==
    <<[otherPs[1] EXCEPT !.price = ConvPrice(prov, m)]>>
    \o ps
    \o (IF prov = "alfa"
        THEN <<MPosting(fee_account, Amount(m.fee, "UAH"), NoPrice)>>
        ELSE <<>>)
    \o Tail(otherPs)

\* What "raise RuntimeError(... % e)" raises: e is a tuple, so the % of alfa
\* and ukrsib fails with TypeError before RuntimeError is built; procredit
\* formats with an f-string.
NoCounterError(prov) == IF prov = "procredit" THEN "RuntimeError" ELSE "TypeError"

\* "for e in subentries" of the conversion step.
RECURSIVE MergeConversions(_, _, _)
MergeConversions(prov, st, i) ==
    IF st.err # "" \/ i > Len(st.sub) THEN st
    ELSE
      LET e     == st.sub[i]
          m     == st.txn[e].src_purpose
          other == IF m = NoConv THEN None
                   ELSE find_closest(st.sub, e,
                          { x \in DOMAIN st.txn :
                              st.txn[x].postings[1].units
                                = NegAmount(Amount(m.amount, m.currency)) })
      IN  IF m = NoConv THEN MergeConversions(prov, st, i + 1)
          ELSE IF other = None THEN [st EXCEPT !.err = NoCounterError(prov)]
          ELSE
            LET spliced ==
                  [st EXCEPT
                     !.txn[e].postings =
                         Splice(prov, m, @, st.txn[other].postings),
                     !.txn[e].other_src_doc_n = st.txn[other].src_doc_n,
                     !.log = Append(@, [step |-> "conv", e |-> e, other |-> other,
                                        otherPostings |-> st.txn[other].postings])]
            IN  IF ~InList(st.entries, other)
                THEN [spliced EXCEPT !.err = "ValueError"]
                ELSE MergeConversions(prov,
                       [spliced EXCEPT !.entries = ListRemove(@, other)], i + 1)

\* entries_by_date: the dates in the order of their first row, and the rows
\* of one date in the order of the list.
RECURSIVE DatesInOrder(_, _)
DatesInOrder(store, lst) ==
    IF lst = <<>> THEN <<>>
    ELSE LET rest == DatesInOrder(store, SubSeq(lst, 1, Len(lst) - 1))
             d    == store[lst[Len(lst)]].date
         IN  IF InList(rest, d) THEN rest ELSE Append(rest, d)

RECURSIVE EntriesOfDate(_, _, _)
EntriesOfDate(store, lst, d) ==
    IF lst = <<>> THEN <<>>
    ELSE (IF store[Head(lst)].date = d THEN <<Head(lst)>> ELSE <<>>)
         \o EntriesOfDate(store, Tail(lst), d)

\* "for _date, subentries in entries_by_date.items()".
RECURSIVE GroupLoop(_, _, _, _)
GroupLoop(prov, st, groups, g) ==
    IF st.err # "" \/ g > Len(groups) THEN st
    ELSE IF Len(groups[g]) = 1 THEN GroupLoop(prov, st, groups, g + 1)
    ELSE
      LET a == MergeSameDocument(prov, [st EXCEPT !.sub = groups[g]], 1)
          b == MergeConversions(prov, a, 1)
      IN  GroupLoop(prov, b, groups, g + 1)

merge_entries(prov, lst, store) ==
    LET dates  == DatesInOrder(store, lst)
        groups == [g \in DOMAIN dates |-> EntriesOfDate(store, lst, dates[g])]
    IN  GroupLoop(prov,
                  [entries |-> lst, sub |-> <<>>, txn |-> store, err |-> "",
                   log |-> <<>>],
                  groups, 1)

(***************************************************************************)
(* importers/ibkr.py: the lot tracker                                      *)
(*                                                                         *)
(* A Decimal is held exactly, as the fraction n / d in lowest terms with   *)
(* d > 0, so that two Decimals are equal exactly when their records are.   *)
(* A symbol is the sequence of its characters.  A lot is the list          *)
(* [quantity, price, real_price], and holdings_map is the list of its      *)
(* (key, lots) items in insertion order, a key being <<date, symbol>>.     *)
(***************************************************************************)
RECURSIVE GCD(_, _)
GCD(a, b) == IF b = 0 THEN a ELSE GCD(b, a % b)

Dec(n, d) ==
    LET g == GCD(Abs(n), Abs(d))
    IN  IF d < 0 THEN [n |-> (0 - n) \div g, d |-> (0 - d) \div g]
        ELSE [n |-> n \div g, d |-> d \div g]

DInt(i) == Dec(i, 1)

DAdd(a, b) == Dec(a.n * b.d + b.n * a.d, a.d * b.d)

DSub(a, b) == Dec(a.n * b.d - b.n * a.d, a.d * b.d)

DMul(a, b) == Dec(a.n * b.n, a.d * b.d)

DDiv(a, b) == Dec(a.n * b.d, a.d * b.n)

DNeg(a) == [n |-> 0 - a.n, d |-> a.d]

DAbs(a) == [n |-> Abs(a.n), d |-> a.d]

DLt(a, b) == a.n * b.d < b.n * a.d

RECURSIVE Pow10(_)
Pow10(k) == IF k = 0 THEN 1 ELSE 10 * Pow10(k - 1)

\* The first k decimal digits of (q + r / d), r < d, by long division: the
\* digits read as an integer, and the remainder left over.
RECURSIVE LongDiv(_, _, _, _)
LongDiv(q, r, d, k) ==
    IF k = 0 THEN <<q, r>>
    ELSE LongDiv(q * 10 + (r * 10) \div d, (r * 10) % d, d, k - 1)

\* round(x, k) of a Decimal: to k decimal places, ties to the even digit.
DRound(x, k) ==
    LET qr == LongDiv(Abs(x.n) \div x.d, Abs(x.n) % x.d, x.d, k)
        m  == IF 2 * qr[2] < x.d THEN qr[1]
              ELSE IF 2 * qr[2] > x.d THEN qr[1] + 1
              ELSE IF qr[1] % 2 = 0 THEN qr[1] ELSE qr[1] + 1
    IN  Dec(IF x.n < 0 THEN 0 - m ELSE m, Pow10(k))

\* symbol.replace(" ", ".")
RECURSIVE ReplaceSpace(_)
ReplaceSpace(s) ==
    IF s = <<>> THEN <<>>
    ELSE <<IF Head(s) = " " THEN "." ELSE Head(s)>> \o ReplaceSpace(Tail(s))

get_currency_from_symbol(symbol) ==
    LET s == ReplaceSpace(symbol)
    IN  IF Len(s) < 2 THEN s \o <<"S", "T", "O", "C", "K">> ELSE s

\* holdings_map: position of the key k, or 0.
MapIndex(map, k) ==
    LET hit == { i \in DOMAIN map : map[i].k = k }
    IN  IF hit = {} THEN 0 ELSE Min(hit)

MapHas(map, k) == MapIndex(map, k) # 0

\* The list under k, for a key that is present or not.
MapGet(map, k) == IF MapHas(map, k) THEN map[MapIndex(map, k)].v ELSE <<>>

\* holdings_map[k] of a defaultdict(list): reading a missing key inserts it
\* with an empty list.
MapTouch(map, k) ==
    IF MapHas(map, k) THEN map ELSE Append(map, [k |-> k, v |-> <<>>])

\* holdings_map[k] = v
MapSet(map, k, v) ==
    IF MapHas(map, k) THEN [map EXCEPT ![MapIndex(map, k)].v = v]
    ELSE Append(map, [k |-> k, v |-> v])

\* del holdings_map[k], for a key that is present
MapDel(map, k) == ListRemove(map, map[MapIndex(map, k)])

\* lst.pop(i)
ListPop(lst, i) == SubSeq(lst, 1, i - 1) \o SubSeq(lst, i + 1, Len(lst))

\* Mutant: a trade joins a lot whose true price is the same at 4 decimals.
add_holding_rounded(map, row) ==
    LET k        == <<row.dateTime, get_currency_from_symbol(row.symbol)>>
        m1       == MapTouch(map, k)
        holdings == MapGet(m1, k)
        rp       == DDiv(row.cost, row.quantity)
        same     == { i \in DOMAIN holdings :
                        DRound(holdings[i][3], 4) = DRound(rp, 4) }
    IN  IF same # {}
        THEN MapSet(m1, k, [holdings EXCEPT ![Min(same)][1] = DAdd(@, row.quantity)])
        ELSE MapSet(m1, k, Append(holdings, <<row.quantity, row.tradePrice, rp>>))

\* A lot that process_stock_merger stored is a tuple, not a list: it is held
\* with a fourth element that marks it, and an assignment to one of its items
\* raises TypeError.
IsTuple(holding) == Len(holding) = 4

ItemAssignment == "TypeError: 'tuple' object does not support item assignment"

\* add_holding(row) raises: the lot the trade would join is a tuple.
add_holding_raises(map, row) ==
    LET holdings == MapGet(map, <<row.dateTime, get_currency_from_symbol(row.symbol)>>)
        same     == { i \in DOMAIN holdings :
                        holdings[i][3] = DDiv(row.cost, row.quantity) }
    IN  same # {} /\ IsTuple(holdings[Min(same)])

\* add_holding(row): the map afterwards.
add_holding(map, row) ==
    LET k        == <<row.dateTime, get_currency_from_symbol(row.symbol)>>
        m1       == MapTouch(map, k)
        holdings == MapGet(m1, k)
        rp       == DDiv(row.cost, row.quantity)
        same     == { i \in DOMAIN holdings : holdings[i][3] = rp }
    IN  IF same # {}
        THEN IF IsTuple(holdings[Min(same)]) THEN m1
             ELSE MapSet(m1, k,
                    [holdings EXCEPT ![Min(same)][1] = DAdd(@, row.quantity)])
        ELSE MapSet(m1, k, Append(holdings, <<row.quantity, row.tradePrice, rp>>))

NotEnough == "ValueError: not enough holdings"

DoNotHave == "ValueError: do not have"

\* Mutant: only a lot of exactly the closing lot's true price is taken.
LotMatches_exact(holding, lot) == holding[3] = DDiv(lot.cost, lot.quantity)

\* The test that a stored lot passes to be taken for the closing lot.
LotMatches(holding, lot) ==
    LET rp == DDiv(lot.cost, lot.quantity)
    IN  \/ DRound(holding[3], 4) = DRound(rp, 4)
        \/ /\ holding[1] = lot.quantity
           /\ DRound(holding[3], 2) = DRound(rp, 2)

\* Mutant: the lot is reduced before the quantities are compared.
get_and_reduce_holding_reducing(map, lot) ==
    LET k        == <<lot.openDateTime, get_currency_from_symbol(lot.symbol)>>
        m1       == MapTouch(map, k)
        holdings == MapGet(m1, k)
        ok       == { i \in DOMAIN holdings : LotMatches(holdings[i], lot) }
    IN  IF ok = {} THEN [map |-> m1, price |-> NoPrice, err |-> DoNotHave]
        ELSE
          LET i        == Min(ok)
              quantity == holdings[i][1]
              Zero     == DInt(0)
              reduced  == MapSet(m1, k,
                            [holdings EXCEPT ![i][1] = DSub(@, lot.quantity)])
          IN  IF \/ (DLt(quantity, Zero) /\ DLt(lot.quantity, quantity))
                 \/ (DLt(Zero, quantity) /\ DLt(quantity, lot.quantity))
              THEN [map |-> reduced, price |-> NoPrice, err |-> NotEnough]
              ELSE IF quantity = lot.quantity
              THEN [map |-> MapSet(m1, k, ListPop(holdings, i)),
                    price |-> holdings[i][2], err |-> ""]
              ELSE [map |-> reduced, price |-> holdings[i][2], err |-> ""]

\* Mutant: a lot closed in full stays in the list with quantity zero.
get_and_reduce_holding_no_pop(map, lot) ==
    LET k        == <<lot.openDateTime, get_currency_from_symbol(lot.symbol)>>
        m1       == MapTouch(map, k)
        holdings == MapGet(m1, k)
        ok       == { i \in DOMAIN holdings : LotMatches(holdings[i], lot) }
    IN  IF ok = {} THEN [map |-> m1, price |-> NoPrice, err |-> DoNotHave]
        ELSE
          LET i        == Min(ok)
              quantity == holdings[i][1]
              Zero     == DInt(0)
          IN  IF \/ (DLt(quantity, Zero) /\ DLt(lot.quantity, quantity))
                 \/ (DLt(Zero, quantity) /\ DLt(quantity, lot.quantity))
              THEN [map |-> m1, price |-> NoPrice, err |-> NotEnough]
              ELSE [map |-> MapSet(m1, k,
                              [holdings EXCEPT ![i][1] = DSub(@, lot.quantity)]),
                    price |-> holdings[i][2], err |-> ""]

\* get_and_reduce_holding(lot): the map afterwards, the price returned and
\* the exception raised ("" when it returns).
get_and_reduce_holding(map, lot) ==
    LET k        == <<lot.openDateTime, get_currency_from_symbol(lot.symbol)>>
        m1       == MapTouch(map, k)
        holdings == MapGet(m1, k)
        ok       == { i \in DOMAIN holdings : LotMatches(holdings[i], lot) }
    IN  IF ok = {} THEN [map |-> m1, price |-> NoPrice, err |-> DoNotHave]
        ELSE
          LET i        == Min(ok)
              quantity == holdings[i][1]
              Zero     == DInt(0)
          IN  IF \/ (DLt(quantity, Zero) /\ DLt(lot.quantity, quantity))
                 \/ (DLt(Zero, quantity) /\ DLt(quantity, lot.quantity))
              THEN [map |-> m1, price |-> NoPrice, err |-> NotEnough]
              ELSE IF quantity = lot.quantity
              THEN [map |-> MapSet(m1, k, ListPop(holdings, i)),
                    price |-> holdings[i][2], err |-> ""]
              ELSE IF IsTuple(holdings[i])
              THEN [map |-> m1, price |-> NoPrice, err |-> ItemAssignment]
              ELSE [map |-> MapSet(m1, k,
                              [holdings EXCEPT ![i][1] = DSub(@, lot.quantity)]),
                    price |-> holdings[i][2], err |-> ""]

\* The width of the binary fraction a Python float is held in, scaled down
\* from the 53 bits of a double.
FloatBits == 8

RECURSIVE Pow2(_)
Pow2(k) == IF k = 0 THEN 1 ELSE 2 * Pow2(k - 1)

\* The e with 2^e <= n / m < 2^(e + 1), for n / m >= 1.
RECURSIVE Exp2(_, _)
Exp2(n, m) == IF n < 2 * m THEN 0 ELSE 1 + Exp2(n, 2 * m)

\* Decimal(n / m) for ints n >= m > 0: the quotient rounded to the nearest
\* float (ties to even), whose value the Decimal then holds exactly.
FloatDiv(n, m) ==
    LET e    == Exp2(n, m)
        frac == FloatBits - 1 - e
    IN  Dec(RoundHalfEven(n * Pow2(frac), m), Pow2(frac))

\* symbol.replace(" ", "")
RECURSIVE RemoveSpace(_)
RemoveSpace(s) ==
    IF s = <<>> THEN <<>>
    ELSE (IF Head(s) = " " THEN <<>> ELSE <<Head(s)>>) \o RemoveSpace(Tail(s))

\* get_asset_account(symbol), for assets_account "Assets:Investments:IB:{symbol}"
get_asset_account(symbol) == <<"Assets:Investments:IB">> \o RemoveSpace(symbol)

NoMeta == <<>>

\* data.Posting(account, Amount(number, currency), CostSpec(price, None,
\* _, date, None, False), None, None, meta)
LotPosting(account, number, currency, price, date, meta) ==
    [account |-> account, units |-> [number |-> number, currency |-> currency],
     cost |-> [number_per |-> price, date |-> date], price |-> NoPrice,
     meta |-> meta]

\* The items of holdings_map whose key names the symbol, in map order.
RECURSIVE HoldingsOf(_, _)
HoldingsOf(map, symbol) ==
    IF map = <<>> THEN <<>>
    ELSE (IF Head(map).k[2] = symbol THEN <<Head(map)>> ELSE <<>>)
         \o HoldingsOf(Tail(map), symbol)

\* The two postings process_stock_forwardsplit emits for one lot.
SplitPostings(row, symbol, factor, date, lot) ==
    << LotPosting(get_asset_account(row.symbol), DNeg(lot[1]), symbol,
                  lot[2], date, NoMeta),
       LotPosting(get_asset_account(row.symbol), DMul(lot[1], factor), symbol,
                  DDiv(lot[2], factor), date,
                  [ib_cost |-> DRound(DMul(DDiv(lot[3], factor), lot[1]), 6)]) >>

RECURSIVE SplitPostingsOfList(_, _, _, _, _)
SplitPostingsOfList(row, symbol, factor, date, lst) ==
    IF lst = <<>> THEN <<>>
    ELSE SplitPostings(row, symbol, factor, date, Head(lst))
         \o SplitPostingsOfList(row, symbol, factor, date, Tail(lst))

RECURSIVE SplitPostingsOfItems(_, _, _, _)
SplitPostingsOfItems(row, symbol, factor, items) ==
    IF items = <<>> THEN <<>>
    ELSE SplitPostingsOfList(row, symbol, factor, Head(items).k[1], Head(items).v)
         \o SplitPostingsOfItems(row, symbol, factor, Tail(items))

\* process_stock_forwardsplit(row), the description of the row being
\* "SPLIT n FOR m": the map afterwards and the postings of the transaction.
\* The rescaling loop stops with TypeError at the first lot that is a tuple;
\* the lots before it, in the order of the map and of the lists, are rescaled.
process_stock_forwardsplit(map, row) ==
    LET symbol == get_currency_from_symbol(row.symbol)
        factor == FloatDiv(row.split[1], row.split[2])
        tuples == { x \in (DOMAIN map)
                             \X (UNION { DOMAIN map[i].v : i \in DOMAIN map }) :
                      /\ map[x[1]].k[2] = symbol
                      /\ x[2] \in DOMAIN map[x[1]].v
                      /\ IsTuple(map[x[1]].v[x[2]]) }
        reached(i, j) ==
            \A x \in tuples : i < x[1] \/ (i = x[1] /\ j < x[2])
    IN  [map |->
           [i \in DOMAIN map |->
              IF map[i].k[2] # symbol THEN map[i]
              ELSE [map[i] EXCEPT !.v =
                      [j \in DOMAIN map[i].v |->
                         IF reached(i, j)
                         THEN << DMul(map[i].v[j][1], factor),
                                 DDiv(map[i].v[j][2], factor),
                                 DDiv(map[i].v[j][3], factor) >>
                         ELSE map[i].v[j]]]],
         postings |-> SplitPostingsOfItems(row, symbol, factor,
                                           HoldingsOf(map, symbol)),
         err |-> IF tuples = {} THEN "" ELSE ItemAssignment]

\* row.symbol.endswith(".OLD")
EndsWithOLD(s) ==
    /\ Len(s) >= 4
    /\ SubSeq(s, Len(s) - 3, Len(s)) = <<".", "O", "L", "D">>

\* re.search(r"(.*?)\(", description).group(1): the text before the first "(".
RECURSIVE BeforeParen(_)
BeforeParen(s) ==
    IF s = <<>> \/ Head(s) = "(" THEN <<>>
    ELSE <<Head(s)>> \o BeforeParen(Tail(s))

\* The two postings process_issue_change emits for one lot.
IssuePostings(row, old_symbol, date, lot) ==
    << LotPosting(get_asset_account(old_symbol), DNeg(lot[1]), old_symbol,
                  lot[2], date, NoMeta),
       LotPosting(get_asset_account(row.symbol), lot[1],
                  get_currency_from_symbol(row.symbol), lot[2], date,
                  [ib_cost |-> DMul(lot[1], lot[3])]) >>

RECURSIVE IssuePostingsOfList(_, _, _, _)
IssuePostingsOfList(row, old_symbol, date, lst) ==
    IF lst = <<>> THEN <<>>
    ELSE IssuePostings(row, old_symbol, date, Head(lst))
         \o IssuePostingsOfList(row, old_symbol, date, Tail(lst))

\* "for date, lst in holdings" of process_issue_change: the key of the old
\* symbol is deleted and the list is assigned to the key of row.symbol.
RECURSIVE IssueLoop(_, _, _, _)
IssueLoop(st, row, old_symbol, items) ==
    IF items = <<>> THEN st
    ELSE
      LET date == Head(items).k[1]
          lst  == Head(items).v
      IN  IssueLoop(
            [map |-> MapSet(MapDel(st.map, <<date, old_symbol>>),
                            <<date, row.symbol>>, lst),
             postings |-> st.postings
                          \o IssuePostingsOfList(row, old_symbol, date, lst)],
            row, old_symbol, Tail(items))

\* process_issue_change(action_group)
process_issue_change(map, action_group) ==
    LET row        == IF EndsWithOLD(action_group[1].symbol)
                      THEN action_group[2] ELSE action_group[1]
        old_symbol == BeforeParen(row.description)
    IN  IssueLoop([map |-> map, postings |-> <<>>], row, old_symbol,
                  HoldingsOf(map, old_symbol))

\* None where a trade, a cost or an amount is expected.
NoTrade == <<>>

NoCost == <<>>

NoUnits == <<>>

\* A posting without a cost: Posting(account, units, None, None, flag, None)
PlainPosting(account, number, currency) ==
    [account |-> account, units |-> [number |-> number, currency |-> currency],
     cost |-> NoCost, price |-> NoPrice, meta |-> NoMeta]

\* The posting to the PnL account, which has no units.
PnlPosting(symbol) ==
    [account |-> <<"Income:Investments:IB">> \o RemoveSpace(symbol) \o <<"PnL">>,
     units |-> NoUnits, cost |-> NoCost, price |-> NoPrice, meta |-> NoMeta]

\* iter_trades_with_lots(trades): the (trade, lots) pairs of the flat list of
\* Trade and Lot elements; st.trade is NoTrade until the first Trade is met.
RECURSIVE IterTradesWithLots(_, _)
IterTradesWithLots(st, trades) ==
    IF trades = <<>>
    THEN IF st.trade = NoTrade THEN st.out
         ELSE Append(st.out, [trade |-> st.trade, lots |-> st.lots])
    ELSE
      LET t == Head(trades)
      IN  IF t.kind = "Trade"
          THEN IterTradesWithLots(
                 [trade |-> t,
                  lots  |-> IF st.trade = NoTrade THEN st.lots ELSE <<>>,
                  out   |-> IF st.trade = NoTrade THEN st.out
                            ELSE Append(st.out, [trade |-> st.trade,
                                                 lots |-> st.lots])],
                 Tail(trades))
          ELSE IterTradesWithLots([st EXCEPT !.lots = Append(@, t)], Tail(trades))

iter_trades_with_lots(trades) ==
    IterTradesWithLots([trade |-> NoTrade, lots |-> <<>>, out |-> <<>>], trades)

\* Mutant: the first lot that cannot be served ends the loop over the lots.
RECURSIVE ClosingLots_raising(_, _, _)
ClosingLots_raising(st, row, lots) ==
    IF lots = <<>> THEN st
    ELSE
      LET clo == Head(lots)
          r   == get_and_reduce_holding(st.map, clo)
      IN  IF r.err # ""
          THEN [st EXCEPT !.map = r.map, !.warnings = Append(@, r.err)]
          ELSE ClosingLots_raising(
                 [map      |-> r.map,
                  warnings |-> st.warnings,
                  postings |-> Append(st.postings,
                      [LotPosting(get_asset_account(row.symbol), DNeg(clo.quantity),
                                  get_currency_from_symbol(clo.symbol),
                                  r.price, clo.openDateTime,
                                  [ib_cost |-> clo.cost])
                         EXCEPT !.price = row.tradePrice])],
                 row, Tail(lots))

\* "for clo in lots" of stock_trades: a lot that get_and_reduce_holding
\* cannot serve is warned about and its posting gets the cost number None.
\* (Here and in the loops below the state of a round is bound by a set
\* constructor, so that it is computed once and then passed on as a value.)
RECURSIVE ClosingLots(_, _, _)
ClosingLots(st, row, lots) ==
    IF lots = <<>> THEN st
    ELSE
      LET clo == Head(lots)
      IN  CHOOSE done \in
            { ClosingLots(
                [map      |-> r.map,
                 warnings |-> IF r.err = "" THEN s.warnings
                              ELSE Append(s.warnings, r.err),
                 postings |-> Append(s.postings,
                     [LotPosting(get_asset_account(row.symbol), DNeg(clo.quantity),
                                 get_currency_from_symbol(clo.symbol),
                                 r.price, clo.openDateTime,
                                 [ib_cost |-> clo.cost])
                        EXCEPT !.price = row.tradePrice])],
                row, Tail(lots))
              : r \in {get_and_reduce_holding(st.map, clo)}, s \in {st} } : TRUE

\* The body of "for row, lots in iter_trades_with_lots(trades)".
TradeTransaction(map, row, lots) ==
    LET opened == row.openCloseIndicator = "OPEN"
    IN  CHOOSE done \in
          { [map |-> IF opened THEN add_holding(map, row) ELSE closed.map,
             warnings |-> IF opened THEN <<>> ELSE closed.warnings,
             txn |-> [meta |-> "trade", date |-> row.dateTime, payee |-> row.symbol,
                      postings |->
                        <<PlainPosting(<<"Assets:Investments:IB:Cash">>,
                                       row.netCash, row.currency)>>
                        \o (IF opened
                            THEN << [LotPosting(get_asset_account(row.symbol),
                                                row.quantity,
                                                get_currency_from_symbol(row.symbol),
                                                row.tradePrice, row.tradeDate,
                                                [ib_cost |-> row.cost])
                                       EXCEPT !.price = row.tradePrice] >>
                            ELSE Append(closed.postings, PnlPosting(row.symbol)))
                        \o <<PlainPosting(<<"Expenses:IB:Fees">>,
                                          DNeg(row.ibCommission), row.currency)>>]]
            : closed \in {ClosingLots([map |-> map, warnings |-> <<>>,
                                       postings |-> <<>>],
                                      row, IF opened THEN <<>> ELSE lots)} } : TRUE

RECURSIVE StockTradesLoop(_, _)
StockTradesLoop(st, pairs) ==
    IF pairs = <<>> THEN st
    ELSE
      CHOOSE done \in
        { StockTradesLoop([map |-> r.map,
                           warnings |-> s.warnings \o r.warnings,
                           transactions |-> Append(s.transactions, r.txn)],
                          Tail(pairs))
          : r \in {TradeTransaction(st.map, Head(pairs).trade, Head(pairs).lots)},
            s \in {st} } : TRUE

\* stock_trades(trades): the map afterwards, the warnings given and the
\* transactions returned.
stock_trades(map, trades) ==
    StockTradesLoop([map |-> map, warnings |-> <<>>, transactions |-> <<>>],
                    iter_trades_with_lots(trades))

\* The posting process_stock_merger emits for every lot of the acquired
\* symbol, the lists taken in map order.
RECURSIVE MergerPostingsOfList(_, _, _, _)
MergerPostingsOfList(row, symbol, date, lst) ==
    IF lst = <<>> THEN <<>>
    ELSE << LotPosting(get_asset_account(row.symbol), DNeg(Head(lst)[1]), symbol,
                       Head(lst)[2], date, NoMeta) >>
         \o MergerPostingsOfList(row, symbol, date, Tail(lst))

RECURSIVE MergerPostingsOfItems(_, _, _)
MergerPostingsOfItems(row, symbol, items) ==
    IF items = <<>> THEN <<>>
    ELSE MergerPostingsOfList(row, symbol, Head(items).k[1], Head(items).v)
         \o MergerPostingsOfItems(row, symbol, Tail(items))

\* "for k in list(self.holdings_map.keys()): if k[1] == symbol: del ..."
RECURSIVE DeleteSymbol(_, _)
DeleteSymbol(map, symbol) ==
    IF map = <<>> THEN <<>>
    ELSE (IF Head(map).k[2] = symbol THEN <<>> ELSE <<Head(map)>>)
         \o DeleteSymbol(Tail(map), symbol)

\* process_stock_merger(action_group): the first row is the acquired
\* symbol with the cash proceeds, the second the symbol received; the lot
\* that is stored for it is a tuple.
process_stock_merger(map, action_group) ==
    LET row     == action_group[1]
        symbol  == get_currency_from_symbol(row.symbol)
        new     == action_group[2]
        k       == <<new.reportDate, get_currency_from_symbol(new.symbol)>>
        price   == DDiv(new.value, new.quantity)
        deleted == MapTouch(DeleteSymbol(map, symbol), k)
    IN  [map |-> MapSet(deleted, k,
                        Append(MapGet(deleted, k),
                               <<new.quantity, price, price, "tuple">>)),
         postings |->
            MergerPostingsOfItems(row, symbol, HoldingsOf(map, symbol))
            \o << PlainPosting(<<"Assets:Investments:IB:Cash">>, row.proceeds,
                               row.currency),
                  PnlPosting(symbol),
                  LotPosting(get_asset_account(new.symbol), new.quantity,
                             get_currency_from_symbol(new.symbol), price,
                             new.reportDate, NoMeta) >>]

\* actions_map of corporate_actions: the rows grouped by actionID, the groups
\* in the order in which their ids first appear.
RECURSIVE ActionGroups(_, _)
ActionGroups(groups, actions) ==
    IF actions = <<>> THEN groups
    ELSE
      LET row == Head(actions)
          hit == { g \in DOMAIN groups : groups[g][1].actionID = row.actionID }
      IN  ActionGroups(IF hit = {} THEN Append(groups, <<row>>)
                       ELSE [groups EXCEPT ![Min(hit)] = Append(@, row)],
                       Tail(actions))

CorporateTransaction(row, postings) ==
    [meta |-> "corporateactions", date |-> row.reportDate, payee |-> row.symbol,
     postings |-> postings]

\* "for action_group in actions_map.values()"; a group of another type or
\* size than the two handled here ends the call with an exception.
RECURSIVE CorporateActionsLoop(_, _)
CorporateActionsLoop(st, groups) ==
    IF groups = <<>> \/ st.err # "" THEN st
    ELSE
      LET group == Head(groups)
          row   == group[1]
      IN  IF row.type = "FORWARDSPLIT" /\ Len(group) = 1
          THEN CHOOSE done \in
                 { CorporateActionsLoop(
                     [s EXCEPT !.map = r.map,
                               !.err = r.err,
                               !.transactions =
                                  IF r.err # "" THEN @
                                  ELSE Append(@, CorporateTransaction(row, r.postings))],
                     Tail(groups))
                   : r \in {process_stock_forwardsplit(st.map, row)},
                     s \in {st} } : TRUE
          ELSE IF row.type = "MERGER" /\ Len(group) = 2
          THEN CHOOSE done \in
                 { CorporateActionsLoop(
                     [s EXCEPT !.map = r.map,
                               !.transactions =
                                  Append(@, CorporateTransaction(group[2], r.postings))],
                     Tail(groups))
                   : r \in {process_stock_merger(st.map, group)},
                     s \in {st} } : TRUE
          ELSE IF row.type = "ISSUECHANGE" /\ Len(group) = 2
          THEN LET new == IF EndsWithOLD(group[1].symbol) THEN group[2] ELSE group[1]
               IN  CHOOSE done \in
                     { CorporateActionsLoop(
                         [s EXCEPT !.map = r.map,
                                   !.transactions =
                                      Append(@, CorporateTransaction(new, r.postings))],
                         Tail(groups))
                       : r \in {process_issue_change(st.map, group)},
                         s \in {st} } : TRUE
          ELSE [st EXCEPT !.err = IF row.type \in {"FORWARDSPLIT", "MERGER", "ISSUECHANGE"}
                                  THEN "AssertionError" ELSE "RuntimeError"]

\* corporate_actions(actions)
corporate_actions(map, actions) ==
    CorporateActionsLoop([map |-> map, transactions |-> <<>>, err |-> ""],
                         ActionGroups(<<>>, actions))

\* _adjust_holding(holdings_map, date, symbol, quantity, price, real_price)
adjust_holding(map, date, symbol, quantity, price, real_price) ==
    LET k   == <<date, symbol>>
        m1  == MapTouch(map, k)
        lst == MapGet(m1, k)
        hit == { i \in DOMAIN lst :
                   \/ DRound(lst[i][3], 4) = DRound(real_price, 4)
                   \/ /\ lst[i][1] = quantity
                      /\ DRound(lst[i][3], 2) = DRound(real_price, 2) }
    IN  IF hit = {} THEN MapSet(m1, k, Append(lst, <<quantity, price, real_price>>))
        ELSE IF DAdd(lst[Min(hit)][1], quantity) = DInt(0)
        THEN MapSet(m1, k, ListPop(lst, Min(hit)))
        ELSE MapSet(m1, k, [lst EXCEPT ![Min(hit)][1] = DAdd(@, quantity)])

\* The existing entries, as far as get_holdings_map reads them: the postings
\* with a cost, each [account, units, cost [number, date], meta], in the
\* order of the ledger.  The accounts of the ledger in the order in which
\* they first appear (every account has lots of its own key only, so the
\* order in which realization walks them does not show in the map).
RECURSIVE LedgerAccounts(_)
LedgerAccounts(existing) ==
    IF existing = <<>> THEN <<>>
    ELSE LET rest == LedgerAccounts(SubSeq(existing, 1, Len(existing) - 1))
             a    == existing[Len(existing)].account
         IN  IF InList(rest, a) THEN rest ELSE Append(rest, a)

\* account.txn_postings of realization.realize
RECURSIVE TxnPostings(_, _)
TxnPostings(existing, account) ==
    IF existing = <<>> THEN <<>>
    ELSE (IF Head(existing).account = account THEN <<Head(existing)>> ELSE <<>>)
         \o TxnPostings(Tail(existing), account)

\* account.balance of realization.realize: the inventory of the postings,
\* one position per (currency, cost); a position that comes to zero units is
\* removed.
RECURSIVE Balance(_, _)
Balance(inv, postings) ==
    IF postings = <<>> THEN inv
    ELSE
      LET p   == Head(postings)
          hit == { i \in DOMAIN inv :
                     inv[i].currency = p.units.currency /\ inv[i].cost = p.cost }
      IN  CHOOSE done \in
            { Balance(next, Tail(postings))
              : next \in
                  { IF hit = {}
                    THEN Append(inv, [currency |-> p.units.currency, cost |-> p.cost,
                                      number |-> p.units.number])
                    ELSE IF DAdd(inv[Min(hit)].number, p.units.number) = DInt(0)
                    THEN ListPop(inv, Min(hit))
                    ELSE [inv EXCEPT ![Min(hit)].number = DAdd(@, p.units.number)] }
            } : TRUE

\* "for tx in account.txn_postings" of get_holdings_map, for one position.
RECURSIVE SeedFromPostings(_, _, _)
SeedFromPostings(map, pos, postings) ==
    IF postings = <<>> THEN map
    ELSE
      LET p == Head(postings)
      IN  CHOOSE done \in
            { SeedFromPostings(next, pos, Tail(postings))
              : next \in
                  { IF /\ p.units.currency = pos.currency
                       /\ p.cost.date = pos.cost.date
                       /\ p.cost.number = pos.cost.number
                       /\ p.meta # NoMeta
                    THEN adjust_holding(map, pos.cost.date, pos.currency,
                                        p.units.number, p.cost.number,
                                        DAbs(DDiv(p.meta.ib_cost, p.units.number)))
                    ELSE map } } : TRUE

\* "for pos in account.balance"
RECURSIVE SeedFromPositions(_, _, _)
SeedFromPositions(map, inv, postings) ==
    IF inv = <<>> THEN map
    ELSE CHOOSE done \in
           { SeedFromPositions(next, Tail(inv), postings)
             : next \in {SeedFromPostings(map, Head(inv), postings)} } : TRUE

\* "for account in realization.iter_children(root, leaf_only=True)"
RECURSIVE SeedFromAccounts(_, _, _)
SeedFromAccounts(map, existing, accounts) ==
    IF accounts = <<>> THEN map
    ELSE
      CHOOSE done \in
        { SeedFromAccounts(next, existing, Tail(accounts))
          : next \in
              UNION { { SeedFromPositions(map, inv, postings)
                        : inv \in {Balance(<<>>, postings)} }
                      : postings \in {TxnPostings(existing, Head(accounts))} }
        } : TRUE

\* get_holdings_map(entries)
get_holdings_map(existing) == SeedFromAccounts(<<>>, existing, LedgerAccounts(existing))

\* Mutant: the map is seeded, or left as the last call left it.
extract_keeping_map(map, use_existing, file, given, existing) ==
    CHOOSE done \in
      UNION { UNION { { [map |-> c.map, warnings |-> t.warnings, err |-> c.err,
                         transactions |->
                            IF c.err = "" THEN t.transactions \o c.transactions
                            ELSE <<>>]
                        : c \in {corporate_actions(t.map, file.CorporateActions)} }
                      : t \in {stock_trades(seeded, file.Trades)} }
              : seeded \in { IF use_existing /\ given
                             THEN get_holdings_map(existing) ELSE map } } : TRUE

\* extract(filename, existing_entries) of a statement without forex trades
\* and with empty CashTransactions and CashReport sections; given is FALSE
\* when existing_entries is None.  The Open directives that
\* autoopen_accounts puts in front carry no postings and are left out.
extract(map, use_existing, file, given, existing) ==
    CHOOSE done \in
      UNION { UNION { { [map |-> c.map, warnings |-> t.warnings, err |-> c.err,
                         transactions |->
                            IF c.err = "" THEN t.transactions \o c.transactions
                            ELSE <<>>]
                        : c \in {corporate_actions(t.map, file.CorporateActions)} }
                      : t \in {stock_trades(seeded, file.Trades)} }
              : seeded \in { IF use_existing /\ given
                             THEN get_holdings_map(existing) ELSE <<>> } } : TRUE

(***************************************************************************)
(* importers/privatbank_xlsx.py, privatbank_xml.py, monobank.py: extract   *)
(*                                                                         *)
(* A statement row is [date, balance, card]: date is the parsed date and   *)
(* time <<day, time>> of the row (day an ordinal, so that adding           *)
(* timedelta(days=1) is day + 1), balance the number of its balance        *)
(* column; the currency that goes with the number is copied from the same  *)
(* row and is left out.  A Monobank row has no card: the account comes     *)
(* from the file name.                                                     *)
(***************************************************************************)
NoDate == <<>>

NoRow == <<>>

unknown_account == "Assets:Unknown"

\* card_to_account_map of get_test_importer
card_to_account_map ==
    [c \in {"1234", "5678"} |->
       IF c = "1234" THEN "Assets:Privatbank:Universal"
       ELSE "Assets:Privatbank:Social"]

\* file_account(filename) of the Monobank importer
file_account == "Assets:Monobank:Black:UAH"

\* date > max_date on datetime values
DateTimeGt(a, b) == a[1] > b[1] \/ (a[1] = b[1] /\ a[2] > b[2])

\* entry_from_row / entry_from_elem: the transaction of a row, dated
\* dt.date(), on card_to_account_map.get(card, unknown_account).
PrivatbankEntry(row) ==
    [kind    |-> "Transaction",
     date    |-> row.date[1],
     account |-> IF row.card \in DOMAIN card_to_account_map
                 THEN card_to_account_map[row.card]
                 ELSE unknown_account]

\* monobank entry_from_row
MonobankEntry(row) ==
    [kind |-> "Transaction", date |-> row.date[1], account |-> file_account]

\* data.Balance(meta, date, account, amount, None, None)
BalanceDirective(date, account, number) ==
    [kind |-> "Balance", date |-> date, account |-> account, number |-> number]

\* The loop of the two Privatbank extracts: every row appends its entry,
\* and a row with a later date and time than every row before it becomes
\* max_row.
RECURSIVE PrivatbankLoop(_, _)
PrivatbankLoop(st, rows) ==
    IF rows = <<>> THEN st
    ELSE
      LET row   == Head(rows)
          later == st.max_date = NoDate \/ DateTimeGt(row.date, st.max_date)
      IN  PrivatbankLoop(
            [entries  |-> Append(st.entries, PrivatbankEntry(row)),
             max_date |-> IF later THEN row.date ELSE st.max_date,
             max_row  |-> IF later THEN row ELSE st.max_row],
            Tail(rows))

\* After the loop: the Balance of max_row, on card_to_account_map[card],
\* which raises KeyError for a card that is not in the map.
PrivatbankBalance(st) ==
    IF st.max_row = NoRow THEN [entries |-> st.entries, err |-> ""]
    ELSE IF st.max_row.card \notin DOMAIN card_to_account_map
    THEN [entries |-> <<>>, err |-> "KeyError"]
    ELSE [entries |-> Append(st.entries,
                        BalanceDirective(st.max_date[1] + 1,
                                     card_to_account_map[st.max_row.card],
                                     st.max_row.balance)),
          err |-> ""]

\* privatbank_xlsx extract: sheet is the list of the rows of the first
\* worksheet, the statement rows being those from the third on.
privatbank_xlsx_extract(sheet) ==
    PrivatbankBalance(
      PrivatbankLoop([entries |-> <<>>, max_date |-> NoDate, max_row |-> NoRow],
                     SubSeq(sheet, 3, Len(sheet))))

\* privatbank_xml extract: root is the list of the child elements of
\* <statements>.
privatbank_xml_extract(root) ==
    PrivatbankBalance(
      PrivatbankLoop([entries |-> <<>>, max_date |-> NoDate, max_row |-> NoRow],
                     root))

\* monobank extract: reader is the list of the rows after the header; the
\* Balance is dated after entries[-1] and takes the balance of row, the last
\* row that the loop read.
monobank_extract(reader) ==
    LET made == [i \in DOMAIN reader |-> MonobankEntry(reader[i])]
    IN  IF made = <<>> THEN [entries |-> made, err |-> ""]
        ELSE [entries |-> Append(made,
                            BalanceDirective(made[Len(made)].date + 1,
                                         file_account,
                                         reader[Len(reader)].balance)),
              err |-> ""]

(***************************************************************************)
(* The state machine                                                       *)
(***************************************************************************)
HookIdle ==
    /\ t_input = <<>>
    /\ extracted = <<>>
    /\ entry = <<>>
    /\ possible_transfers = <<>>
    /\ t_log = <<>>

MergeIdle ==
    /\ provider = "alfa"
    /\ m_input = <<>>
    /\ entries = <<>>
    /\ txn = <<>>
    /\ m_err = ""
    /\ m_log = <<>>

ExtractIdle ==
    /\ b_call = <<>>
    /\ d_call = <<>>
    /\ use_existing_holdings = TRUE
    /\ statement = <<>>
    /\ ledger = <<>>
    /\ x_log = <<>>

LotIdle ==
    /\ holdings_map = <<>>
    /\ l_log = <<>>
    /\ ExtractIdle

\* A batch of n entries drawn from dom, the first n1 of them in the first
\* of two files and the rest in the second.
InitHook(dom) ==
    \E n \in 0..MaxEntries : \E n1 \in 0..n : \E rows \in [1..n -> dom] :
        /\ mode = "hook"
        /\ pc = "ready"
        /\ entry = rows
        /\ extracted = << [i \in 1..n1 |-> i], [i \in 1..(n - n1) |-> n1 + i] >>
        /\ t_input = [extracted |-> extracted, entry |-> entry]
        /\ possible_transfers = <<>>
        /\ t_log = <<>>
        /\ MergeIdle
        /\ LotIdle

InitTransfers == InitHook(AmountEntries)

InitKeys == InitHook(KeyEntries)

\* The entries that extract built from the n rows of a statement.
InitMerge ==
    \E n \in 0..MaxRows : \E rows \in [1..n -> Rows] : \E prov \in Providers :
        /\ mode = "merge"
        /\ pc = "ready"
        /\ provider = prov
        /\ txn = rows
        /\ entries = [i \in 1..n |-> i]
        /\ m_input = rows
        /\ m_err = ""
        /\ m_log = <<>>
        /\ HookIdle
        /\ LotIdle

DetectTransfers ==
    /\ mode = "hook"
    /\ pc = "ready"
    /\ LET st == detect_transfers(extracted, entry)
       IN  /\ extracted' = st.extracted
           /\ entry' = st.entry
           /\ possible_transfers' = st.possible_transfers
           /\ t_log' = st.log
    /\ pc' = "done"
    /\ UNCHANGED <<d_call, b_call, mode, t_input, mergeVars, lotVars, extractVars>>

MergeEntries ==
    /\ mode = "merge"
    /\ pc = "ready"
    /\ LET st == merge_entries(provider, entries, txn)
       IN  /\ entries' = st.entries
           /\ txn' = st.txn
           /\ m_err' = st.err
           /\ m_log' = st.log
    /\ pc' = "done"
    /\ UNCHANGED <<d_call, b_call, mode, provider, m_input, hookVars, lotVars, extractVars>>

NextHook == DetectTransfers

NextMerge == MergeEntries

SpecTransfers == InitTransfers /\ [][NextHook]_vars

SpecKeys == InitKeys /\ [][NextHook]_vars

SpecMerge == InitMerge /\ [][NextMerge]_vars

(***************************************************************************)
(* The lot tracker called method by method                                 *)
(***************************************************************************)
MaxCalls == 3

AB == <<"A", "B">>

CD == <<"C", "D">>

F == <<"F">>

\* Decimal("n.ffff"): n units and f ten-thousandths.
D4(n, f) == Dec(n * 10000 + f, 10000)

\* A Trade row of a stock, openCloseIndicator OPEN.
OpenRow(date, symbol, q, price, cost) ==
    [dateTime |-> date, tradeDate |-> date, symbol |-> symbol,
     quantity |-> DInt(q), tradePrice |-> price, cost |-> cost,
     currency |-> "USD"]

\* A closed Lot of a Trade row.
ClosedLot(date, symbol, q, cost) ==
    [openDateTime |-> date, symbol |-> symbol, quantity |-> DInt(q),
     cost |-> cost, currency |-> "USD"]

\* Quantity, trade price and cost of the opening trades.  The true prices
\* are 10/3 (twice, for 3 and for 6 units, and once for a short sale),
\* 3.3333 and 3.33, which round to 10/3 at four and at two decimals, and 4.
OpenKinds ==
    { <<3, D4(3, 3000), D4(10, 0)>>,
      <<6, D4(3, 3000), D4(20, 0)>>,
      <<3, D4(3, 3100), D4(9, 9999)>>,
      <<3, D4(3, 3200), D4(9, 9900)>>,
      <<3, D4(4, 0), D4(12, 0)>>,
      <<-3, D4(3, 3000), D4(-10, 0)>> }

OpenRows ==
    { OpenRow(1, AB, t[1], t[2], t[3]) : t \in OpenKinds }
    \cup { OpenRow(2, AB, 3, D4(3, 3000), D4(10, 0)),
           OpenRow(1, F, 3, D4(3, 3000), D4(10, 0)),
           OpenRow(1, CD, 3, D4(4, 0), D4(12, 0)) }

\* Quantity and cost of the closed lots.
CloseKinds ==
    { <<3, D4(10, 0)>>, <<6, D4(20, 0)>>, <<1, D4(3, 3333)>>,
      <<3, D4(9, 9900)>>, <<3, D4(12, 0)>>, <<-3, D4(-10, 0)>> }

ClosedLots ==
    { ClosedLot(1, AB, t[1], t[2]) : t \in CloseKinds }
    \cup { ClosedLot(2, AB, 3, D4(10, 0)),
           ClosedLot(1, F, 3, D4(10, 0)),
           ClosedLot(1, CD, 3, D4(10, 0)) }

\* Corporate action rows of type FORWARDSPLIT; split is <<n, m>> of the
\* description "SPLIT n FOR m".  A split is reported once.
SplitRows ==
    { [symbol |-> AB, split |-> r, currency |-> "USD", reportDate |-> 2] :
        r \in { <<2, 1>>, <<6, 5>> } }
    \cup { [symbol |-> CD, split |-> <<2, 1>>, currency |-> "USD", reportDate |-> 2] }

\* The description "OLD(ISIN) CUSIP/ISIN CHANGE TO (ISIN)" of an issue change.
IssueDescription(old) == old \o <<"(", "U", "S", ")">>

\* The two rows of an ISSUECHANGE action: the old symbol, renamed "x.OLD",
\* and the new one.
IssueGroup(old, new) ==
    << [symbol |-> old \o <<".", "O", "L", "D">>,
        description |-> IssueDescription(old), currency |-> "USD", reportDate |-> 2],
       [symbol |-> new,
        description |-> IssueDescription(old), currency |-> "USD", reportDate |-> 2] >>

IssueGroups == { IssueGroup(AB, CD), IssueGroup(F, CD), IssueGroup(AB, F) }

\* The two rows of a MERGER action: the acquired symbol with the cash paid
\* for it, and the symbol received, 3 units valued 12.
MergerGroups ==
    { << [symbol |-> AB, proceeds |-> D4(1, 0), currency |-> "USD", reportDate |-> 2],
         [symbol |-> CD, quantity |-> DInt(3), value |-> D4(12, 0),
          currency |-> "USD", reportDate |-> 2] >> }

\* Importer.__init__: holdings_map = defaultdict(list)
InitLots ==
    /\ mode = "lots"
    /\ pc = "ready"
    /\ holdings_map = <<>>
    /\ l_log = <<>>
    /\ ExtractIdle
    /\ HookIdle
    /\ MergeIdle

LotCall(op, arg, after, price, err, postings) ==
    [op |-> op, arg |-> arg, before |-> holdings_map, after |-> after,
     price |-> price, err |-> err, postings |-> postings]

\* extract runs the trades of a statement before its corporate actions, on
\* a map that it has just rebuilt: no trade follows a corporate action.
TradesPhase ==
    \A i \in DOMAIN l_log : l_log[i].op \in {"add_holding", "get_and_reduce_holding"}

AddHolding ==
    /\ mode = "lots" /\ Len(l_log) < MaxCalls
    /\ TradesPhase
    /\ \E row \in OpenRows :
          LET after == add_holding(holdings_map, row)
          IN  /\ holdings_map' = after
              /\ l_log' = Append(l_log,
                     LotCall("add_holding", row, after, NoPrice,
                             IF add_holding_raises(holdings_map, row)
                             THEN ItemAssignment ELSE "", <<>>))
    /\ UNCHANGED <<d_call, b_call, mode, pc, hookVars, mergeVars, extractVars>>

GetAndReduceHolding ==
    /\ mode = "lots" /\ Len(l_log) < MaxCalls
    /\ TradesPhase
    /\ \E lot \in ClosedLots :
          LET r == get_and_reduce_holding(holdings_map, lot)
          IN  /\ holdings_map' = r.map
              /\ l_log' = Append(l_log,
                     LotCall("get_and_reduce_holding", lot, r.map, r.price,
                             r.err, <<>>))
    /\ UNCHANGED <<d_call, b_call, mode, pc, hookVars, mergeVars, extractVars>>

ProcessStockForwardsplit ==
    /\ mode = "lots" /\ Len(l_log) < MaxCalls
    /\ \E row \in SplitRows :
          LET r == process_stock_forwardsplit(holdings_map, row)
          IN  /\ \A i \in DOMAIN l_log : l_log[i].arg # row
              /\ holdings_map' = r.map
              /\ l_log' = Append(l_log,
                     LotCall("process_stock_forwardsplit", row, r.map, NoPrice,
                             r.err, r.postings))
    /\ UNCHANGED <<d_call, b_call, mode, pc, hookVars, mergeVars, extractVars>>

ProcessIssueChange ==
    /\ mode = "lots" /\ Len(l_log) < MaxCalls
    /\ \E g \in IssueGroups :
          LET r == process_issue_change(holdings_map, g)
          IN  /\ holdings_map' = r.map
              /\ l_log' = Append(l_log,
                     LotCall("process_issue_change", g, r.map, NoPrice, "",
                             r.postings))
    /\ UNCHANGED <<d_call, b_call, mode, pc, hookVars, mergeVars, extractVars>>

ProcessStockMerger ==
    /\ mode = "lots" /\ Len(l_log) < MaxCalls
    /\ \E g \in MergerGroups :
          LET r == process_stock_merger(holdings_map, g)
          IN  /\ holdings_map' = r.map
              /\ l_log' = Append(l_log,
                     LotCall("process_stock_merger", g, r.map, NoPrice, "",
                             r.postings))
    /\ UNCHANGED <<d_call, b_call, mode, pc, hookVars, mergeVars, extractVars>>

NextLots ==
    \/ AddHolding
    \/ GetAndReduceHolding
    \/ ProcessStockForwardsplit
    \/ ProcessIssueChange
    \/ ProcessStockMerger

SpecLots == InitLots /\ [][NextLots]_vars

(***************************************************************************)
(* The importer called statement by statement                              *)
(***************************************************************************)
MaxExtracts == 3

\* A Trade element of the Trades section.
TradeRow(oc, date, symbol, q, price, cost) ==
    [kind |-> "Trade", openCloseIndicator |-> oc, dateTime |-> date,
     tradeDate |-> date, symbol |-> symbol, quantity |-> DInt(q),
     tradePrice |-> price, cost |-> cost, currency |-> "USD",
     netCash |-> DNeg(cost), ibCommission |-> DInt(-1)]

\* A Lot element of the Trades section.
LotRow(date, symbol, q, cost) ==
    [kind |-> "Lot", openDateTime |-> date, symbol |-> symbol,
     quantity |-> DInt(q), cost |-> cost, currency |-> "USD"]

OpenA6 == TradeRow("OPEN", 1, AB, 6, D4(3, 3000), D4(20, 0))

OpenB3 == TradeRow("OPEN", 1, AB, 3, D4(3, 3200), D4(9, 9900))

CloseTrade == TradeRow("CLOSE", 2, AB, -3, D4(3, 5000), D4(-10, 0))

Lot6 == LotRow(1, AB, 6, D4(20, 0))

Lot3 == LotRow(1, AB, 3, D4(10, 0))

\* The Trades sections of the statements.
TradesSections ==
    { <<>>,
      <<OpenA6>>,
      <<CloseTrade, Lot3>>,
      <<OpenA6, CloseTrade, Lot6>>,
      <<OpenA6, CloseTrade, Lot3>>,
      <<OpenA6, OpenB3, CloseTrade, Lot6>>,
      <<CloseTrade, Lot6, Lot3, OpenA6>>,
      <<Lot3, CloseTrade, OpenA6>>,
      <<OpenB3, CloseTrade, Lot3>>,
      <<CloseTrade, CloseTrade, Lot3>> }

\* The CorporateActions sections: none, or a split of the symbol, reported
\* on the day of the closing trade or on the day before it.
ActionsSections ==
    { <<>>,
      <<[actionID |-> 1, type |-> "FORWARDSPLIT", symbol |-> AB,
         split |-> <<2, 1>>, currency |-> "USD", reportDate |-> 2]>>,
      <<[actionID |-> 1, type |-> "FORWARDSPLIT", symbol |-> AB,
         split |-> <<2, 1>>, currency |-> "USD", reportDate |-> 1]>> }

Statements ==
    { [Trades |-> t, CorporateActions |-> a] :
        t \in TradesSections, a \in ActionsSections }

\* Another statement that the importer is given between two extractions.
OtherStatements == { [Trades |-> <<OpenA6>>, CorporateActions |-> <<>>] }

\* The ledger before the batch: empty, or holding the purchase of 3 units at
\* 3.30 (cost 10) that an earlier statement reported.
Ledgers ==
    { <<>>,
      << [account |-> get_asset_account(AB),
          units |-> [number |-> DInt(3), currency |-> get_currency_from_symbol(AB)],
          cost |-> [number |-> D4(3, 3000), date |-> 1],
          meta |-> [ib_cost |-> D4(10, 0)]] >> }

\* The postings with a cost of the transactions, as the ledger holds them
\* once the transactions are booked into it.
RECURSIVE BookPostings(_)
BookPostings(postings) ==
    IF postings = <<>> THEN <<>>
    ELSE (IF Head(postings).cost = NoCost THEN <<>>
          ELSE << [account |-> Head(postings).account,
                   units |-> Head(postings).units,
                   cost |-> [number |-> Head(postings).cost.number_per,
                             date |-> Head(postings).cost.date],
                   meta |-> Head(postings).meta] >>)
         \o BookPostings(Tail(postings))

RECURSIVE Book(_)
Book(transactions) ==
    IF transactions = <<>> THEN <<>>
    ELSE BookPostings(Head(transactions).postings) \o Book(Tail(transactions))

\* Some posting of the transactions has a cost without a number.
HasNullCost(transactions) ==
    \E t \in DOMAIN transactions : \E p \in DOMAIN transactions[t].postings :
        /\ transactions[t].postings[p].cost # NoCost
        /\ transactions[t].postings[p].cost.number_per = NoPrice

InitExtract ==
    /\ mode = "extract"
    /\ pc = "ready"
    /\ holdings_map = <<>>
    /\ l_log = <<>>
    /\ use_existing_holdings \in BOOLEAN
    /\ statement \in Statements
    /\ ledger \in Ledgers
    /\ x_log = <<>>
    /\ b_call = <<>>
    /\ d_call = <<>>
    /\ HookIdle
    /\ MergeIdle

\* importer.extract(filename, existing_entries), existing_entries being the
\* ledger or None.
Extract ==
    /\ mode = "extract" /\ Len(x_log) < MaxExtracts
    /\ \E file \in {statement} \cup OtherStatements : \E given \in BOOLEAN :
          \E r \in {extract(holdings_map, use_existing_holdings, file, given, ledger)} :
              /\ holdings_map' = r.map
              /\ x_log' = Append(x_log,
                     [file |-> file, given |-> given, existing |-> ledger,
                      before |-> holdings_map, out |-> r.transactions,
                      warnings |-> r.warnings, err |-> r.err,
                      committed |-> FALSE])
    /\ UNCHANGED <<d_call, b_call, mode, pc, hookVars, mergeVars, l_log, use_existing_holdings,
                   statement, ledger>>

\* The transactions of the last extraction are added to the ledger.
Commit ==
    /\ mode = "extract" /\ x_log # <<>>
    /\ ~x_log[Len(x_log)].committed
    /\ x_log[Len(x_log)].out # <<>>
    /\ ~HasNullCost(x_log[Len(x_log)].out)
    /\ ledger' = ledger \o Book(x_log[Len(x_log)].out)
    /\ x_log' = [x_log EXCEPT ![Len(x_log)].committed = TRUE]
    /\ UNCHANGED <<d_call, b_call, mode, pc, hookVars, mergeVars, lotVars, use_existing_holdings,
                   statement>>

NextExtract == Extract \/ Commit

SpecExtract == InitExtract /\ [][NextExtract]_vars

(***************************************************************************)
(* The bank statement importers: one extract call, on any statement of at  *)
(* most MaxStatementRows rows, in any order of the rows.                   *)
(***************************************************************************)
MaxStatementRows == 2

MaxDay == 2

NoCall == <<>>

RowDates == (1..MaxDay) \X {1, 2}

RowBalances == {10, 20}

\* The cards of the rows: one of card_to_account_map and one that is not.
RowCards == {"1234", "9999"}

PrivatbankRows == [date : RowDates, balance : RowBalances, card : RowCards]

MonobankRows == [date : RowDates, balance : RowBalances]

RowLists(dom) == UNION { [1..n -> dom] : n \in 0..MaxStatementRows }

\* The two rows above the statement rows of the worksheet.
SheetHead == <<[title |-> "statement"], [title |-> "header"]>>

InitBalance ==
    /\ mode = "balance"
    /\ pc = "ready"
    /\ b_call = NoCall
    /\ d_call = <<>>
    /\ HookIdle
    /\ MergeIdle
    /\ holdings_map = <<>>
    /\ l_log = <<>>
    /\ use_existing_holdings = TRUE
    /\ statement = <<>>
    /\ ledger = <<>>
    /\ x_log = <<>>

BalanceCall(importer, rows, r) ==
    [importer |-> importer, rows |-> rows, entries |-> r.entries, err |-> r.err]

ExtractPrivatbankXlsx ==
    /\ mode = "balance"
    /\ b_call = NoCall
    /\ \E rows \in RowLists(PrivatbankRows) :
          b_call' = BalanceCall("privatbank_xlsx", rows,
                                privatbank_xlsx_extract(SheetHead \o rows))
    /\ UNCHANGED <<d_call, mode, pc, hookVars, mergeVars, lotVars, extractVars>>

ExtractPrivatbankXml ==
    /\ mode = "balance"
    /\ b_call = NoCall
    /\ \E rows \in RowLists(PrivatbankRows) :
          b_call' = BalanceCall("privatbank_xml", rows, privatbank_xml_extract(rows))
    /\ UNCHANGED <<d_call, mode, pc, hookVars, mergeVars, lotVars, extractVars>>

ExtractMonobank ==
    /\ mode = "balance"
    /\ b_call = NoCall
    /\ \E rows \in RowLists(MonobankRows) :
          b_call' = BalanceCall("monobank", rows, monobank_extract(rows))
    /\ UNCHANGED <<d_call, mode, pc, hookVars, mergeVars, lotVars, extractVars>>

NextBalance == ExtractPrivatbankXlsx \/ ExtractPrivatbankXml \/ ExtractMonobank

SpecBalance == InitBalance /\ [][NextBalance]_vars

(***************************************************************************)
(* importers/ibkr.py: dividends and withholding tax                        *)
(*                                                                         *)
(* Every transaction that dividends_and_withholding_tax_from_row builds    *)
(* has the meta of data.new_metadata("dividend", 0, ...), so two of them   *)
(* compare equal exactly when their fields do; the rows of one call live   *)
(* in an object store keyed by their position, and "e != d" and            *)
(* entries.remove(e) compare the stored values.                            *)
(***************************************************************************)
MaxCashRows == 3

\* A row of the CashTransactions section.
CashRow(type, amount, currency, symbol, description) ==
    [type |-> type, amount |-> amount, currency |-> currency, symbol |-> symbol,
     description |-> description, reportDate |-> 2]

\* re.search("payment in lieu of dividend", text, re.IGNORECASE)
InLieu(text) ==
    text \in {"AB PAYMENT IN LIEU OF DIVIDEND", "AB PAYMENT IN LIEU OF DIVIDEND - US TAX"}

\* A dividend of 10.00 and one of 5.00, the tax withheld on it in the
\* currency of the dividend and in another one, a payment in lieu and its
\* tax, and the dividend of another symbol.
CashRows ==
    { CashRow("DIVIDEND", 1000, "USD", "AB", "AB CASH DIVIDEND 0.10 PER SHARE"),
      CashRow("DIVIDEND", 500, "USD", "AB", "AB CASH DIVIDEND 0.10 PER SHARE"),
      CashRow("WHTAX", -100, "USD", "AB", "AB CASH DIVIDEND 0.10 PER SHARE - US TAX"),
      CashRow("WHTAX", -100, "EUR", "AB", "AB CASH DIVIDEND 0.10 PER SHARE - US TAX"),
      CashRow("PAYMENTINLIEU", 300, "USD", "AB", "AB PAYMENT IN LIEU OF DIVIDEND"),
      CashRow("WHTAX", -30, "USD", "AB", "AB PAYMENT IN LIEU OF DIVIDEND - US TAX"),
      CashRow("DIVIDEND", 1000, "USD", "CD", "CD CASH DIVIDEND 0.10 PER SHARE"),
      CashRow("FEES", -100, "USD", "", "Fee") }

\* Posting(account, units, None, None, None, None)
DivPosting(account, units) == [account |-> account, units |-> units]

\* dividends_and_withholding_tax_from_row(idx, row); "" is a key that the
\* meta does not hold.
dividends_and_withholding_tax_from_row(row) ==
    LET amount_ == Amount(row.amount, row.currency)
        isTax   == row.type = "WHTAX"
    IN  [meta |-> [div_type |-> IF ~isTax THEN row.type
                                ELSE IF InLieu(row.description)
                                THEN "PAYMENTINLIEU" ELSE "DIVIDEND",
                   div |-> ~isTax],
         date |-> row.reportDate,
         payee |-> row.symbol,
         narration |-> row.description,
         postings |->
            << DivPosting(IF isTax THEN <<"Expenses:Investments:IB:WithholdingTax">>
                          ELSE <<"Income:Investments:IB", row.symbol, "Div">>,
                          NegAmount(amount_)),
               DivPosting(<<"Assets:Investments:IB:Cash">>, amount_) >>]

\* fee_from_row(idx, row): a transaction without div_type in its meta.
fee_from_row(row) ==
    [meta |-> [div_type |-> "", div |-> FALSE],
     date |-> row.reportDate,
     payee |-> "IB",
     narration |-> row.description,
     postings |->
        << DivPosting(<<"Expenses:IB:Fees">>, NegAmount(Amount(row.amount, row.currency))),
           DivPosting(<<"Assets:Investments:IB:Cash">>,
                      Amount(row.amount, row.currency)) >>]

\* cash_transactions(ct), for the row types of the model.
cash_transactions(ct) ==
    [i \in DOMAIN ct |->
       IF ct[i].type = "FEES" THEN fee_from_row(ct[i])
       ELSE dividends_and_withholding_tax_from_row(ct[i])]

\* The key of grouped for an entry that has div_type in its meta.
DivGroupKey(e) == <<e.date, e.payee, e.meta.div_type>>

\* grouped.values(): the groups in the order in which their keys first
\* appear, each the list of its entries in the order of entries.
RECURSIVE DivGroups(_, _, _)
DivGroups(store, groups, i) ==
    IF i > Len(store) THEN groups
    ELSE IF store[i].meta.div_type = "" THEN DivGroups(store, groups, i + 1)
    ELSE
      LET hit == { g \in DOMAIN groups :
                     DivGroupKey(store[groups[g][1]]) = DivGroupKey(store[i]) }
      IN  DivGroups(store,
                    IF hit = {} THEN Append(groups, <<i>>)
                    ELSE [groups EXCEPT ![Min(hit)] = Append(@, i)],
                    i + 1)

\* amount_add(A1, A2); the raise of a string is itself a TypeError.
amount_add(A1, A2) ==
    IF A1.currency = A2.currency
    THEN [amount |-> Amount(A1.number + A2.number, A1.currency), err |-> ""]
    ELSE [amount |-> A1, err |-> "TypeError"]

\* functools.reduce(amount_add, (p.units for p in postings)), from the
\* amount acc on.
RECURSIVE ReduceAmounts(_, _)
ReduceAmounts(acc, postings) ==
    IF postings = <<>> \/ acc.err # "" THEN acc
    ELSE ReduceAmounts(amount_add(acc.amount, Head(postings).units), Tail(postings))

\* grouped_postings: the accounts in the order in which they first appear.
RECURSIVE AccountsInOrder(_)
AccountsInOrder(postings) ==
    IF postings = <<>> THEN <<>>
    ELSE LET rest == AccountsInOrder(SubSeq(postings, 1, Len(postings) - 1))
             a    == postings[Len(postings)].account
         IN  IF InList(rest, a) THEN rest ELSE Append(rest, a)

PostingsOfAccount(postings, a) == SelectSeq(postings, LAMBDA p : p.account = a)

\* "merge postings with the same account": one posting per account, with the
\* sum of the account's amounts.
MergeSameAccount(postings) ==
    LET accounts == AccountsInOrder(postings)
        sums     == [i \in DOMAIN accounts |->
                       LET ps == PostingsOfAccount(postings, accounts[i])
                       IN  ReduceAmounts([amount |-> ps[1].units, err |-> ""], Tail(ps))]
    IN  [postings |-> [i \in DOMAIN accounts |-> DivPosting(accounts[i], sums[i].amount)],
         err |-> IF \E i \in DOMAIN sums : sums[i].err # "" THEN "TypeError" ELSE ""]

\* "if e != d": the transactions are compared by their fields.
DiffersFrom(store, e, d) == store[e] # store[d]

\* "for e in group" of the merge: e is merged into d and the first entry of
\* entries that equals e is removed.
RECURSIVE DivMergeLoop(_, _, _, _)
DivMergeLoop(st, group, d, i) ==
    IF i > Len(group) \/ st.err # "" THEN st
    ELSE
      LET e == group[i]
      IN  IF ~DiffersFrom(st.store, e, d) THEN DivMergeLoop(st, group, d, i + 1)
          ELSE
            LET extended == [st.store EXCEPT ![d].postings = @ \o st.store[e].postings]
                hit      == { j \in DOMAIN st.entries :
                                extended[st.entries[j]] = extended[e] }
            IN  IF hit = {}
                THEN [st EXCEPT !.store = extended, !.err = "ValueError"]
                ELSE DivMergeLoop(
                       [st EXCEPT !.store = extended,
                                  !.entries = ListPop(@, Min(hit))],
                       group, d, i + 1)

\* "for group in grouped.values()".
RECURSIVE DivGroupLoop(_, _, _)
DivGroupLoop(st, groups, g) ==
    IF g > Len(groups) \/ st.err # "" THEN st
    ELSE
      LET group == groups[g]
          divs  == { i \in DOMAIN group : st.store[group[i]].meta.div }
      IN  IF Len(group) < 2 \/ divs = {} THEN DivGroupLoop(st, groups, g + 1)
          ELSE
            LET d      == group[Min(divs)]
                merged == DivMergeLoop(st, group, d, 1)
                summed == MergeSameAccount(merged.store[d].postings)
            IN  IF merged.err # "" THEN merged
                ELSE DivGroupLoop(
                       [merged EXCEPT
                          !.store[d].meta = [div_type |-> "", div |-> FALSE],
                          !.store[d].postings = summed.postings,
                          !.err = summed.err],
                       groups, g + 1)

\* merge_dividend_and_withholding(entries): the list returned, or the
\* exception raised.
merge_dividend_and_withholding(given) ==
    LET done == DivGroupLoop([store |-> given, entries |-> [i \in DOMAIN given |-> i],
                              err |-> ""],
                             DivGroups(given, <<>>, 1), 1)
    IN  [entries |-> [i \in DOMAIN done.entries |-> done.store[done.entries[i]]],
         kept |-> done.entries,
         err |-> done.err]

InitDividends ==
    /\ mode = "dividends"
    /\ pc = "ready"
    /\ d_call = <<>>
    /\ b_call = <<>>
    /\ HookIdle
    /\ MergeIdle
    /\ holdings_map = <<>>
    /\ l_log = <<>>
    /\ use_existing_holdings = TRUE
    /\ statement = <<>>
    /\ ledger = <<>>
    /\ x_log = <<>>

\* extract: merge_dividend_and_withholding over the transactions that
\* cash_transactions made of the rows.
MergeDividendAndWithholding ==
    /\ mode = "dividends"
    /\ d_call = <<>>
    /\ \E n \in 1..MaxCashRows : \E ct \in [1..n -> CashRows] :
          \E r \in {merge_dividend_and_withholding(cash_transactions(ct))} :
              d_call' = [given |-> cash_transactions(ct), entries |-> r.entries,
                         kept |-> r.kept, err |-> r.err]
    /\ UNCHANGED <<b_call, mode, pc, hookVars, mergeVars, lotVars, extractVars>>

NextDividends == MergeDividendAndWithholding

SpecDividends == InitDividends /\ [][NextDividends]_vars

(***************************************************************************)
(* Properties of detect_transfers                                          *)
(***************************************************************************)
HookDone == mode = "hook" /\ pc = "done"

InputPostings(e) == t_input.entry[e].postings

\* The value recorded by get_transfer_info when the entry was given.
InputValue(e) == SumNumbers(InputPostings(e))

InputFile(e) == CHOOSE f \in DOMAIN t_input.extracted : InList(t_input.extracted[f], e)

Remaining(e) == \E f \in DOMAIN extracted : InList(extracted[f], e)

IsPrefix(s, t) == Len(s) <= Len(t) /\ SubSeq(t, 1, Len(s)) = s

TransactionIds == { e \in DOMAIN t_input.entry : t_input.entry[e].kind = "Transaction" }

\* The log records where a merge happened.
Merges == { i \in DOMAIN t_log : t_log[i].into # 0 }

\* The candidate, as it was when t_log[i].e was merged into it.
Absorber(i) ==
    LET L == t_log[i]
    IN  L.cands[CHOOSE j \in DOMAIN L.cands : L.cands[j].e = L.into]

OppositeSigns(a, b) == (a > 0 /\ b < 0) \/ (a < 0 /\ b > 0)

MaxOf(a, b) == IF a >= b THEN a ELSE b

MinOf(a, b) == IF a <= b THEN a ELSE b

\* Opposite, non-zero, and no further apart than 1% of the smaller one.
Within1Pct(a, b) ==
    /\ OppositeSigns(a, b)
    /\ 100 * Abs(Abs(a) - Abs(b)) <= MinOf(Abs(a), Abs(b))

\* The outcome C1 describes for the pair (t1 absorbs t2).
Absorbed(ps1, t1, t2) ==
    /\ ~Remaining(t2)
    /\ InList(extracted[InputFile(t1)], t1)
    /\ IsPrefix(ps1 \o InputPostings(t2), entry[t1].postings)

\* No two amounts of the batch that the detector's test accepts are further
\* apart than 1%.
NoLooseMatch ==
    \A x \in TransactionIds : \A y \in TransactionIds :
        are_values_oposit(InputValue(y), InputValue(x))
          => Within1Pct(InputValue(x), InputValue(y))

Accepted(L) ==
    { j \in DOMAIN L.cands :
        /\ are_values_oposit(L.v, L.cands[j].v)
        /\ Accounts(L.cands[j].postings) # Accounts(InputPostings(L.e)) }

C2_AsClaimed ==
    HookDone =>
      \A i \in Merges :
        LET a == Abs(t_log[i].v)
            b == Abs(Absorber(i).v)
        IN  100 * Abs(a - b) <= MaxOf(a, b)

\* C3 as stated: a transaction absorbs at most one other transaction, so no
\* output transaction holds the postings of more than two input transactions.
C3_AsClaimed ==
    HookDone =>
      \A e \in TransactionIds :
        Cardinality({ i \in Merges : t_log[i].into = e }) <= 1

\* C4 as stated: at every merge the two transactions, as they are when they
\* are merged, have summed amounts of opposite sign, neither of them zero,
\* and account sets that differ.
C4_AsClaimed ==
    HookDone =>
      \A i \in Merges :
        LET s1 == SumNumbers(Absorber(i).postings)
            s2 == SumNumbers(InputPostings(t_log[i].e))
        IN  /\ OppositeSigns(s1, s2)
            /\ Accounts(Absorber(i).postings) # Accounts(InputPostings(t_log[i].e))

\* C5 as stated: both transactions of every merge have a single posting when
\* they are merged.
C5_AsClaimed ==
    HookDone =>
      \A i \in Merges :
        /\ Len(InputPostings(t_log[i].e)) = 1
        /\ Len(Absorber(i).postings) = 1

\* The seconds since midnight that a recorded time of day denotes.
SecondsOfDay(t) == t[1] * 3600 + t[2] * 60 + (IF Len(t) = 3 THEN t[3] ELSE 0)

\* k is (date, HH:00:00) with HH:00 a whole hour nearest to the recorded
\* time (24:00 reads 00:00), or (date, 00:00:00) without a recorded time.
NearestHourKey(e, k) ==
    /\ k[1] = e.date
    /\ k[2][2] = 0 /\ k[2][3] = 0 /\ k[2][1] \in 0..23
    /\ e.time = NoTime => k[2][1] = 0
    /\ e.time # NoTime =>
         \E n \in 0..24 :
            /\ n % 24 = k[2][1]
            /\ Abs(n * 3600 - SecondsOfDay(e.time)) <= 1800

LogOf(e) == t_log[CHOOSE i \in DOMAIN t_log : t_log[i].e = e]

\* C6: every transaction is keyed by its date and its recorded time rounded
\* to the nearest whole hour, HH:00:00 (00:00:00 when it has no time), and
\* two transactions are merged only if their keys are equal.
C6_KeyedByDateAndHour ==
    HookDone =>
      /\ \A e \in TransactionIds :
            /\ \E i \in DOMAIN t_log : t_log[i].e = e
            /\ NearestHourKey(t_input.entry[e], LogOf(e).k)
      /\ \A i \in Merges : t_log[i].k = LogOf(t_log[i].into).k

\* C6 witness: two transactions with different recorded times were merged,
\* and a transaction with a recorded time was kept apart from a candidate of
\* the same date.
C6_Witness ==
    /\ HookDone
    /\ \E i \in Merges :
          /\ t_input.entry[t_log[i].e].time # NoTime
          /\ t_input.entry[t_log[i].into].time # NoTime
          /\ t_input.entry[t_log[i].e].time # t_input.entry[t_log[i].into].time
    /\ \E e1 \in TransactionIds : \E e2 \in TransactionIds :
          /\ t_input.entry[e1].date = t_input.entry[e2].date
          /\ LogOf(e1).k # LogOf(e2).k
          /\ Within1Pct(InputValue(e1), InputValue(e2))

(***************************************************************************)
(* Properties of merge_entries                                             *)
(***************************************************************************)
MergeDone == mode = "merge" /\ pc = "done"

RowIds == DOMAIN m_input

NoConversionRows == \A e \in RowIds : m_input[e].src_purpose = NoConv

\* The records of the conversion splices that were made.
Splices == { i \in DOMAIN m_log : m_log[i].step = "conv" }

\* x is a counter-entry for the conversion row e, going by the rows as given.
CounterRow(e, x) ==
    /\ x # e
    /\ m_input[x].date = m_input[e].date
    /\ m_input[x].postings[1].units
         = NegAmount(Amount(m_input[e].src_purpose.amount,
                            m_input[e].src_purpose.currency))

\* C7 as stated: whenever a row's purpose matches the conversion pattern and
\* no other row of its date has the negated counter-amount as its first
\* posting, merge_entries raises an error.
C7_AsClaimed ==
    MergeDone =>
      \A e \in RowIds :
        ( /\ m_input[e].src_purpose # NoConv
          /\ ~\E x \in RowIds : CounterRow(e, x) )
        => m_err # ""

\* a and b are the two rows of their date that share a document id (for
\* procredit, with negated amounts), a the earlier one.
DocumentPair(a, b) ==
    /\ a < b
    /\ m_input[a].date = m_input[b].date
    /\ m_input[a].src_doc_n = m_input[b].src_doc_n
    /\ provider = "procredit" =>
         m_input[b].postings[1].units = NegAmount(m_input[a].postings[1].units)
    /\ \A c \in RowIds \ {a, b} :
         ~(m_input[c].date = m_input[a].date
           /\ m_input[c].src_doc_n = m_input[a].src_doc_n)

\* C8 as stated (for statements without conversion rows): the two rows of a
\* date that share a document id come out as one transaction that holds the
\* earlier row's postings followed by the later row's.
C8_AsClaimed ==
    (MergeDone /\ NoConversionRows) =>
      \A a \in RowIds : \A b \in RowIds :
        DocumentPair(a, b) =>
          /\ m_err = ""
          /\ \E s \in {a, b} :
                /\ InList(entries, s)
                /\ \A d \in {a, b} \ {s} : ~InList(entries, d)
                /\ txn[s].postings = m_input[a].postings \o m_input[b].postings

\* C9 as stated (for statements without conversion rows): merge_entries
\* returns without error and no two transactions of one date in its output
\* carry the same document id (for procredit: with negated first postings).
C9_AsClaimed ==
    (MergeDone /\ NoConversionRows) =>
      /\ m_err = ""
      /\ \A i \in DOMAIN entries : \A j \in DOMAIN entries :
           i # j =>
             ~( /\ txn[entries[i]].date = txn[entries[j]].date
                /\ txn[entries[i]].src_doc_n = txn[entries[j]].src_doc_n
                /\ provider = "procredit" =>
                     txn[entries[j]].postings[1].units
                       = NegAmount(txn[entries[i]].postings[1].units) )

\* The counter-posting priced at the rate parsed from the purpose of e, and
\* the fee posting for the parsed fee.
PricedCounter(l) ==
    [l.otherPostings[1] EXCEPT
        !.price = [number |-> [num |-> m_input[l.e].src_purpose.rate, den |-> 100],
                   currency |-> "UAH"]]

FeePosting(l) ==
    MPosting(fee_account, Amount(m_input[l.e].src_purpose.fee, "UAH"), NoPrice)

\* C10 as stated (alfa): after a splice the primary entry's postings are
\* [priced counter-posting, fee posting, the primary's own postings...], and
\* the counter-entry is not in the returned list.
C10_AsClaimed ==
    (MergeDone /\ provider = "alfa") =>
      \A i \in Splices :
        LET l == m_log[i]
        IN  /\ IsPrefix(<<PricedCounter(l), FeePosting(l)>> \o m_input[l.e].postings,
                        txn[l.e].postings)
            /\ m_err = "" => ~InList(entries, l.other)

\* C10 (amended, alfa): for a primary entry and the counter-entry that the
\* conversion step pairs with it, the merged postings are [counter-posting
\* priced at the parsed rate, the primary's own postings..., fee posting,
\* the counter-entry's remaining postings...], and the counter-entry is not
\* in the list that merge_entries returns.
C10_SpliceOrder ==
    (MergeDone /\ provider = "alfa") =>
      \A i \in Splices :
        LET l == m_log[i]
        IN  /\ txn[l.e].postings =
                  <<PricedCounter(l)>> \o m_input[l.e].postings
                  \o <<FeePosting(l)>> \o Tail(l.otherPostings)
            /\ m_err = "" => ~InList(entries, l.other)

\* C10 witness: merge_entries of alfa returned after splicing a counter-entry
\* that carried a second posting.
C10_Witness ==
    /\ MergeDone /\ provider = "alfa" /\ m_err = ""
    /\ \E i \in Splices : Len(m_log[i].otherPostings) = 2

\* C11 as stated (alfa, ukrsib and procredit): after a conversion splice the
\* surviving transaction holds the counter-entry's first posting, priced at
\* exactly the parsed rate, before its own postings, a fee-account posting
\* for the parsed fee, the counter-entry's remaining postings last, and the
\* counter-entry's document id in its metadata.
C11_AsClaimed ==
    MergeDone =>
      \A i \in Splices :
        LET l  == m_log[i]
            ps == txn[l.e].postings
            n  == Len(Tail(l.otherPostings))
        IN  /\ IsPrefix(<<PricedCounter(l)>> \o m_input[l.e].postings, ps)
            /\ \E j \in DOMAIN ps : ps[j] = FeePosting(l)
            /\ Len(ps) >= n
            /\ SubSeq(ps, Len(ps) - n + 1, Len(ps)) = Tail(l.otherPostings)
            /\ txn[l.e].other_src_doc_n = m_input[l.other].src_doc_n

(***************************************************************************)
(* Properties of the lot tracker                                           *)
(***************************************************************************)
Calls == DOMAIN l_log

OpenKey(row) == <<row.dateTime, get_currency_from_symbol(row.symbol)>>

CloseKey(lot) == <<lot.openDateTime, get_currency_from_symbol(lot.symbol)>>

TruePrice(x) == DDiv(x.cost, x.quantity)

Keys(map) == { map[i].k : i \in DOMAIN map }

RECURSIVE SumQuantity(_)
SumQuantity(lots) ==
    IF lots = <<>> THEN DInt(0) ELSE DAdd(Head(lots)[1], SumQuantity(Tail(lots)))

SameSign(a, b) == (a.n > 0 /\ b.n > 0) \/ (a.n < 0 /\ b.n < 0)

\* Call i opened a lot under a key that held no lot, and call i + 1 is for a
\* closing lot of that key with the same true price.
OpenThenClose(i) ==
    /\ i \in Calls /\ i + 1 \in Calls
    /\ l_log[i].op = "add_holding"
    /\ l_log[i + 1].op = "get_and_reduce_holding"
    /\ MapGet(l_log[i].before, OpenKey(l_log[i].arg)) = <<>>
    /\ CloseKey(l_log[i + 1].arg) = OpenKey(l_log[i].arg)
    /\ TruePrice(l_log[i + 1].arg) = TruePrice(l_log[i].arg)

Matching(lots, lot) == { j \in DOMAIN lots : LotMatches(lots[j], lot) }

\* C13: get_and_reduce_holding consumes the first lot, in list order under
\* the closing lot's (open date, symbol), whose true price equals the closing
\* lot's at 4 decimals or whose quantity is the closed quantity and whose true
\* price equals it at 2 decimals, and returns that lot's recorded price; a lot
\* that passes neither test is never changed; with no such lot it raises
\* ValueError.
C13_FirstMatchingLot ==
    mode = "lots" =>
      \A i \in Calls :
        l_log[i].op = "get_and_reduce_holding" =>
          LET lot    == l_log[i].arg
              before == MapGet(l_log[i].before, CloseKey(lot))
              after  == MapGet(l_log[i].after, CloseKey(lot))
              rp     == TruePrice(lot)
              ok     == { j \in DOMAIN before :
                            \/ DRound(before[j][3], 4) = DRound(rp, 4)
                            \/ /\ before[j][1] = lot.quantity
                               /\ DRound(before[j][3], 2) = DRound(rp, 2) }
          IN  /\ ok = {} => (l_log[i].err = DoNotHave /\ after = before)
              /\ ok # {} => l_log[i].err \in {"", NotEnough}
              /\ l_log[i].err = "" =>
                   /\ ok # {}
                   /\ l_log[i].price = before[Min(ok)][2]
                   /\ after =
                        IF before[Min(ok)][1] = lot.quantity
                        THEN ListPop(before, Min(ok))
                        ELSE [before EXCEPT ![Min(ok)][1] = DSub(@, lot.quantity)]
              /\ l_log[i].err # "" => after = before
              /\ \A k \in Keys(l_log[i].before) \ {CloseKey(lot)} :
                   MapGet(l_log[i].after, k) = MapGet(l_log[i].before, k)

\* C13 witness: a closing lot took the second lot of its key, which it
\* matched at 4 decimals without its true price being equal.
C13_Witness ==
    /\ mode = "lots"
    /\ \E i \in Calls :
          /\ l_log[i].op = "get_and_reduce_holding"
          /\ l_log[i].err = ""
          /\ LET lot    == l_log[i].arg
                 before == MapGet(l_log[i].before, CloseKey(lot))
             IN  /\ Len(before) >= 2
                 /\ ~LotMatches(before[1], lot)
                 /\ LotMatches(before[2], lot)
                 /\ before[2][3] # TruePrice(lot)

\* C16: add_holding of an open trade of quantity q and true price p: a lot
\* of the row's (date, symbol) that has exactly that true price grows by q
\* and no lot is added; without one, the lot (q, trade price, p) is appended;
\* either way the quantities under the key sum to q more than before and the
\* lots under every other key are untouched.
C16_AddHolding ==
    mode = "lots" =>
      \A i \in Calls :
        l_log[i].op = "add_holding" =>
          LET row    == l_log[i].arg
              k      == OpenKey(row)
              before == MapGet(l_log[i].before, k)
              after  == MapGet(l_log[i].after, k)
              p      == TruePrice(row)
              same   == { j \in DOMAIN before : before[j][3] = p }
          IN  /\ same # {} =>
                   /\ Len(after) = Len(before)
                   /\ \E j \in same :
                        after = [before EXCEPT ![j][1] = DAdd(@, row.quantity)]
              /\ same = {} =>
                   after = Append(before, <<row.quantity, row.tradePrice, p>>)
              /\ SumQuantity(after) = DAdd(SumQuantity(before), row.quantity)
              /\ Keys(l_log[i].after) = Keys(l_log[i].before) \cup {k}
              /\ \A k2 \in Keys(l_log[i].before) \ {k} :
                   MapGet(l_log[i].after, k2) = MapGet(l_log[i].before, k2)

\* C16 witness: a trade was added to the lot of its true price while another
\* key held a lot.
C16_Witness ==
    /\ mode = "lots"
    /\ \E i \in Calls :
          /\ l_log[i].op = "add_holding"
          /\ LET k      == OpenKey(l_log[i].arg)
                 before == MapGet(l_log[i].before, k)
             IN  /\ \E j \in DOMAIN before : before[j][3] = TruePrice(l_log[i].arg)
                 /\ \E k2 \in Keys(l_log[i].before) \ {k} :
                       MapGet(l_log[i].before, k2) # <<>>

\* C18 as stated: process_stock_forwardsplit with ratio n for m multiplies
\* the quantity of every open lot of the split symbol by n / m and divides
\* its recorded price and its true price by n / m, leaves the lots of every
\* other symbol as they are, and emits for each lot a posting that removes
\* the old quantity at the old price and one that adds the new quantity at
\* the new price.
C18_AsClaimed ==
    mode = "lots" =>
      \A i \in Calls :
        l_log[i].op = "process_stock_forwardsplit" =>
          LET row    == l_log[i].arg
              symbol == get_currency_from_symbol(row.symbol)
              ratio  == Dec(row.split[1], row.split[2])
              before == l_log[i].before
              after  == l_log[i].after
          IN  /\ Keys(after) = Keys(before)
              /\ \A k \in Keys(before) :
                   IF k[2] # symbol THEN MapGet(after, k) = MapGet(before, k)
                   ELSE
                     /\ Len(MapGet(after, k)) = Len(MapGet(before, k))
                     /\ \A j \in DOMAIN MapGet(before, k) :
                          LET old == MapGet(before, k)[j]
                              new == MapGet(after, k)[j]
                          IN  /\ new[1] = DMul(old[1], ratio)
                              /\ new[2] = DDiv(old[2], ratio)
                              /\ new[3] = DDiv(old[3], ratio)
                              /\ DMul(new[1], new[2]) = DMul(old[1], old[2])
                              /\ \E p \in DOMAIN l_log[i].postings :
                                   /\ l_log[i].postings[p].units.number = DNeg(old[1])
                                   /\ l_log[i].postings[p].cost.number_per = old[2]
                              /\ \E p \in DOMAIN l_log[i].postings :
                                   /\ l_log[i].postings[p].units.number
                                        = DMul(old[1], ratio)
                                   /\ l_log[i].postings[p].cost.number_per
                                        = DDiv(old[2], ratio)

\* C19 as stated: process_issue_change moves every open lot of the old symbol
\* to the new symbol under its acquisition date, unchanged: afterwards no lot
\* is left under the old symbol, every lot that the new symbol held before is
\* still there, and the moved lots lie under the key that
\* get_and_reduce_holding reads for a closing lot of the new symbol.
C19_AsClaimed ==
    mode = "lots" =>
      \A i \in Calls :
        l_log[i].op = "process_issue_change" =>
          LET group  == l_log[i].arg
              old    == get_currency_from_symbol(BeforeParen(group[2].description))
              new    == get_currency_from_symbol(group[2].symbol)
              before == l_log[i].before
              after  == l_log[i].after
          IN  /\ \A k \in Keys(after) : k[2] = old => MapGet(after, k) = <<>>
              /\ \A k \in Keys(before) :
                   k[2] \in {old, new} =>
                     \A j \in DOMAIN MapGet(before, k) :
                       \E j2 \in DOMAIN MapGet(after, <<k[1], new>>) :
                         MapGet(after, <<k[1], new>>)[j2] = MapGet(before, k)[j]

(***************************************************************************)
(* Properties of extract                                                   *)
(***************************************************************************)
Extractions == DOMAIN x_log

\* The cost basis of every posting of the transactions: the per-unit cost
\* number and the acquisition date, or NoCost.
CostBasis(transactions) ==
    [t \in DOMAIN transactions |->
       [p \in DOMAIN transactions[t].postings |-> transactions[t].postings[p].cost]]

\* The transactions that stock_trades made, which hold the open and close
\* postings.
IsTradeTransaction(t) == t.meta = "trade"

TradesOf(transactions) == SelectSeq(transactions, IsTradeTransaction)

\* C14 as stated: an extraction of a statement whose existing entries hold
\* the output of an earlier extraction of that statement gives every open and
\* close posting the cost basis that the earlier extraction gave it (both
\* extractions are given the existing entries).
C14_AsClaimed ==
    mode = "extract" =>
      \A i \in Extractions : \A j \in Extractions :
        ( /\ i < j
          /\ x_log[i].committed
          /\ x_log[i].given
          /\ x_log[j].file = x_log[i].file
          /\ x_log[j].given
          /\ IsPrefix(x_log[i].existing \o Book(x_log[i].out), x_log[j].existing) )
        => CostBasis(TradesOf(x_log[j].out)) = CostBasis(TradesOf(x_log[i].out))

TradeElements(trades) == { i \in DOMAIN trades : trades[i].kind = "Trade" }

\* The postings of a transaction that carry a cost.
CostPostings(t) == { p \in DOMAIN t.postings : t.postings[p].cost # NoCost }

NullCostPostings(t) ==
    { p \in CostPostings(t) : t.postings[p].cost.number_per = NoPrice }

RECURSIVE SumOver(_, _)
SumOver(f, S) ==
    IF S = {} THEN 0
    ELSE LET x == CHOOSE y \in S : TRUE IN f[x] + SumOver(f, S \ {x})

\* C15: a closing lot that cannot be matched is warned about and not raised:
\* its posting is emitted with a null per-unit cost, the other closing lots
\* and trades are processed, and there is one transaction per Trade row.
C15_FailedCloseIsWarned ==
    mode = "extract" =>
      \A i \in Extractions :
        x_log[i].err = "" =>
          LET trades == x_log[i].file.Trades
              pairs  == iter_trades_with_lots(trades)
              out    == x_log[i].out
              txns   == { t \in DOMAIN out : out[t].meta = "trade" }
          IN  /\ Cardinality(txns) = Cardinality(TradeElements(trades))
              /\ txns = DOMAIN pairs
              /\ \A t \in txns :
                   /\ out[t].date = pairs[t].trade.dateTime
                   /\ out[t].payee = pairs[t].trade.symbol
                   /\ pairs[t].trade.openCloseIndicator # "OPEN" =>
                        /\ Cardinality(CostPostings(out[t])) = Len(pairs[t].lots)
                        /\ \A n \in DOMAIN pairs[t].lots :
                             /\ out[t].postings[n + 1].units.number
                                  = DNeg(pairs[t].lots[n].quantity)
                             /\ out[t].postings[n + 1].cost.date
                                  = pairs[t].lots[n].openDateTime
              /\ Len(x_log[i].warnings)
                   = SumOver([t \in txns |-> Cardinality(NullCostPostings(out[t]))],
                             txns)

\* C15 witness: a closing lot failed, the next lot of the same trade got its
\* price, and the trade after it was processed.
C15_Witness ==
    /\ mode = "extract"
    /\ \E i \in Extractions :
          /\ x_log[i].err = ""
          /\ Len(x_log[i].warnings) = 1
          /\ Len(x_log[i].out) >= 2
          /\ Len(x_log[i].out[1].postings) >= 3
          /\ x_log[i].out[1].postings[2].cost # NoCost
          /\ x_log[i].out[1].postings[2].cost.number_per = NoPrice
          /\ x_log[i].out[1].postings[3].cost # NoCost
          /\ x_log[i].out[1].postings[3].cost.number_per # NoPrice
          /\ x_log[i].out[2].meta = "trade"

\* C17: the lot map carries nothing from one extract call to the next: two
\* calls with the same file and the same existing entries return the same
\* transactions and give the same warnings, whatever the importer extracted
\* before.
C17_NoStateAcrossCalls ==
    mode = "extract" =>
      \A i \in Extractions : \A j \in Extractions :
        ( /\ x_log[i].file = x_log[j].file
          /\ x_log[i].given = x_log[j].given
          /\ x_log[i].existing = x_log[j].existing )
        => /\ x_log[i].out = x_log[j].out
           /\ x_log[i].warnings = x_log[j].warnings
           /\ x_log[i].err = x_log[j].err

\* C17 witness: two calls with the same file and entries, the second on an
\* importer whose map held lots of another statement, both closing a lot.
C17_Witness ==
    /\ mode = "extract"
    /\ \E i \in Extractions : \E j \in Extractions :
          /\ i < j
          /\ x_log[i].file = x_log[j].file
          /\ x_log[i].given = x_log[j].given
          /\ x_log[i].existing = x_log[j].existing
          /\ x_log[i].before = <<>>
          /\ \E k \in DOMAIN x_log[j].before : x_log[j].before[k].v # <<>>
          /\ x_log[j - 1].file # x_log[j].file
          /\ \E t \in DOMAIN x_log[j].out :
                \E p \in CostPostings(x_log[j].out[t]) :
                    x_log[j].out[t].postings[p].units.number.n < 0

(***************************************************************************)
(* Properties of the balance assertions                                    *)
(***************************************************************************)
BalancesOf(made) == { i \in DOMAIN made : made[i].kind = "Balance" }

\* The rows that no row of the statement is later than.
LatestRows(rows) ==
    { i \in DOMAIN rows : \A k \in DOMAIN rows : ~DateTimeGt(rows[k].date, rows[i].date) }

\* Every card of the statement is a card of the importer's
\* card_to_account_map (a Monobank row has no card).
CardsKnown ==
    b_call.importer # "monobank" =>
      \A i \in DOMAIN b_call.rows : b_call.rows[i].card \in DOMAIN card_to_account_map

\* C20 as stated: a statement with rows yields one balance assertion, after
\* all its transactions, dated one day after the latest transaction date and
\* carrying the balance of the latest row, in whatever order the rows are; a
\* statement without rows yields none.
C20_AsClaimed ==
    (mode = "balance" /\ b_call # NoCall /\ CardsKnown) =>
      LET rows    == b_call.rows
          made == b_call.entries
      IN  IF rows = <<>>
          THEN b_call.err = "" /\ BalancesOf(made) = {}
          ELSE /\ b_call.err = ""
               /\ BalancesOf(made) = {Len(made)}
               /\ Len(made) = Len(rows) + 1
               /\ \E i \in LatestRows(rows) :
                     /\ made[Len(made)].date = rows[i].date[1] + 1
                     /\ made[Len(made)].number = rows[i].balance

(***************************************************************************)
(* Further properties of detect_transfers                                  *)
(***************************************************************************)
\* C23 as stated: whether two transactions of one key are merged does not
\* depend on which is processed first: for every candidate that an entry was
\* compared with (both summed amounts non-zero, on different accounts),
\* are_values_oposit gives the same answer with its two arguments exchanged.
C23_AsClaimed ==
    HookDone =>
      \A i \in DOMAIN t_log : \A c \in DOMAIN t_log[i].cands :
        ( /\ t_log[i].v # 0 /\ t_log[i].cands[c].v # 0
          /\ ~same_accounts(t_log[i].cands[c].postings, InputPostings(t_log[i].e)) ) =>
          are_values_oposit(t_log[i].v, t_log[i].cands[c].v)
            = are_values_oposit(t_log[i].cands[c].v, t_log[i].v)

\* The transactions and other entries that the files' lists hold.
Listed(ex) == { e \in DOMAIN entry : \E f \in DOMAIN ex : InList(ex[f], e) }

\* How many postings equal to p the listed entries hold.
PostingCount(ex, store, p) ==
    Cardinality({ x \in Listed(ex) \X (1..(2 * MaxEntries)) :
                    /\ x[2] \in DOMAIN store[x[1]].postings
                    /\ store[x[1]].postings[x[2]] = p })

PostingValues(store) ==
    UNION { { store[e].postings[i] : i \in DOMAIN store[e].postings } : e \in DOMAIN store }

PositionIn(lst, e) == CHOOSE j \in DOMAIN lst : lst[j] = e

C29_AsClaimed ==
    HookDone =>
      \A i \in Merges :
        ( /\ t_input.entry[t_log[i].e].time # NoTime
          /\ t_input.entry[t_log[i].into].time # NoTime )
        => Abs(SecondsOfDay(t_input.entry[t_log[i].e].time)
                 - SecondsOfDay(t_input.entry[t_log[i].into].time)) <= HourSecs

(***************************************************************************)
(* Further properties of merge_entries                                     *)
(***************************************************************************)
\* The rows of date d whose purpose names a conversion, and the rows of the
\* date that carry the sold amount as their first posting.
ConversionRows(d) ==
    { e \in RowIds : m_input[e].date = d /\ m_input[e].src_purpose # NoConv }

CounterRows(d) ==
    { x \in RowIds :
        /\ m_input[x].date = d
        /\ m_input[x].src_purpose = NoConv
        /\ m_input[x].postings[1].units
             = NegAmount(Amount(ConvMatch.amount, ConvMatch.currency)) }

\* C21 as stated: a counter-entry is consumed by at most one conversion
\* splice, so when a date holds two conversions of the same amount and two
\* counter-entries, and no two rows of the date are the two halves of one
\* document, each conversion is spliced with a counter-entry of its own and merge_entries
\* returns without error.
C21_AsClaimed ==
    MergeDone =>
      \A d \in { m_input[e].date : e \in RowIds } :
        ( /\ Cardinality(ConversionRows(d)) = 2
          /\ Cardinality(CounterRows(d)) = 2
          /\ \A a, b \in RowIds :
               (a # b /\ m_input[a].date = d /\ m_input[b].date = d)
                 => ~SameDocument(provider, m_input, a, b) )
        => /\ m_err = ""
           /\ \A e \in ConversionRows(d) :
                \E i \in Splices : m_log[i].e = e /\ m_log[i].other \in CounterRows(d)
           /\ \A i, j \in Splices :
                (i # j /\ m_input[m_log[i].e].date = d /\ m_input[m_log[j].e].date = d)
                  => m_log[i].other # m_log[j].other

\* A posting without its price, and how many postings of the entries of lst
\* are p when prices are left aside.
Unpriced(p) == [account |-> p.account, units |-> p.units]

MovementCount(lst, store, p) ==
    Cardinality({ x \in (1..Len(lst)) \X (1..(2 * MaxRows + 2)) :
                    /\ x[2] \in DOMAIN store[lst[x[1]]].postings
                    /\ Unpriced(store[lst[x[1]]].postings[x[2]]) = p })

InputMovements ==
    UNION { { Unpriced(m_input[e].postings[i]) : i \in DOMAIN m_input[e].postings } :
            e \in RowIds }

\* The entries that a document-id merge dropped from the list.
DroppedByDocument == { m_log[i].other : i \in { j \in DOMAIN m_log : m_log[j].step = "doc" } }

\* C22 as stated: when merge_entries returns, every posting of every input
\* entry is held exactly once by the transactions of the returned list (the
\* counter-posting with its price added), and no entry dropped by a
\* document-id merge is the primary or the counter-entry of a splice.
C22_AsClaimed ==
    (MergeDone /\ m_err = "") =>
      /\ \A p \in InputMovements :
            MovementCount(entries, txn, p)
              = MovementCount([i \in RowIds |-> i], m_input, p)
      /\ \A i \in Splices :
            /\ m_log[i].e \notin DroppedByDocument
            /\ m_log[i].other \notin DroppedByDocument

(***************************************************************************)
(* Further properties of the lot tracker                                   *)
(***************************************************************************)
\* The calls of get_and_reduce_holding that raised ValueError.
FailedCloses ==
    { i \in Calls : /\ l_log[i].op = "get_and_reduce_holding"
                    /\ l_log[i].err \in {NotEnough, DoNotHave} }

\* C28: whenever get_and_reduce_holding raises ValueError, whether for "not
\* enough holdings" or for "do not have", every key holds the same lots
\* after the call as before it, with the same quantity, recorded price and
\* true price.
C28_FailedCloseChangesNoLot ==
    mode = "lots" =>
      \A i \in FailedCloses :
        \A k \in Keys(l_log[i].before) \cup Keys(l_log[i].after) :
          MapGet(l_log[i].after, k) = MapGet(l_log[i].before, k)

\* C28 witness: a close failed for "not enough holdings" on a lot that
\* matches it, and another failed for "do not have" while the key held lots.
C28_Witness ==
    /\ mode = "lots"
    /\ \E i \in FailedCloses :
          /\ l_log[i].err = NotEnough
          /\ Matching(MapGet(l_log[i].before, CloseKey(l_log[i].arg)), l_log[i].arg) # {}
    /\ \E i \in FailedCloses :
          /\ l_log[i].err = DoNotHave
          /\ MapGet(l_log[i].before, CloseKey(l_log[i].arg)) # <<>>

(***************************************************************************)
(* Further properties of the IBKR extraction                               *)
(***************************************************************************)
\* The position of the n-th Trade element of a Trades section, and the
\* elements between position i and the next Trade element.
TradePosition(trades, n) ==
    CHOOSE i \in TradeElements(trades) :
        Cardinality({ j \in TradeElements(trades) : j <= i }) = n

ElementsUntilNextTrade(trades, i) ==
    LET later == { j \in TradeElements(trades) : j > i }
    IN  SubSeq(trades, i + 1, IF later = {} THEN Len(trades) ELSE Min(later) - 1)

\* C30 as stated: iter_trades_with_lots yields the Trade elements once each
\* in input order, each with exactly the Lot elements between it and the
\* next Trade, so that a Lot before the first Trade is attached to no trade.
C30_AsClaimed ==
    mode = "extract" =>
      \A i \in Extractions :
        LET trades == x_log[i].file.Trades
            pairs  == iter_trades_with_lots(trades)
        IN  /\ Len(pairs) = Cardinality(TradeElements(trades))
            /\ \A n \in DOMAIN pairs :
                  /\ pairs[n].trade = trades[TradePosition(trades, n)]
                  /\ pairs[n].lots
                       = ElementsUntilNextTrade(trades, TradePosition(trades, n))

\* The lot map that extraction i starts from.
SeededMap(i) ==
    IF use_existing_holdings /\ x_log[i].given
    THEN get_holdings_map(x_log[i].existing) ELSE <<>>

\* Every corporate action of the statement is dated before (after) every
\* trade of the statement.
ActionsBeforeTrades(file) ==
    /\ file.CorporateActions # <<>>
    /\ TradeElements(file.Trades) # {}
    /\ \A a \in DOMAIN file.CorporateActions : \A t \in TradeElements(file.Trades) :
          file.CorporateActions[a].reportDate < file.Trades[t].dateTime

ActionsAfterTrades(file) ==
    /\ file.CorporateActions # <<>>
    /\ TradeElements(file.Trades) # {}
    /\ \A a \in DOMAIN file.CorporateActions : \A t \in TradeElements(file.Trades) :
          file.CorporateActions[a].reportDate > file.Trades[t].dateTime

\* C26 as stated: the lot map is changed in the order of the dates.  When
\* the corporate actions of a statement are dated before its trades, the
\* trade transactions are those that stock_trades makes from the lots as the
\* corporate actions left them; when they are dated after its trades, those
\* that stock_trades makes from the lots the extraction started from.
C26_AsClaimed ==
    mode = "extract" =>
      \A i \in Extractions :
        LET file == x_log[i].file
        IN  /\ (x_log[i].err = "" /\ ActionsBeforeTrades(file)) =>
                  TradesOf(x_log[i].out)
                    = stock_trades(
                        corporate_actions(SeededMap(i), file.CorporateActions).map,
                        file.Trades).transactions
            /\ (x_log[i].err = "" /\ ActionsAfterTrades(file)) =>
                  TradesOf(x_log[i].out)
                    = stock_trades(SeededMap(i), file.Trades).transactions

\* The lot that a merger call stored: the last lot under (report date, new
\* symbol) of the map it left.
MergerKey(g) == <<g[2].reportDate, get_currency_from_symbol(g[2].symbol)>>

MergerLot(i) ==
    LET lots == MapGet(l_log[i].after, MergerKey(l_log[i].arg))
    IN  lots[Len(lots)]

\* C24 as stated: process_stock_merger leaves no lot under the acquired
\* symbol and appends, under (report date, new symbol), one lot of the
\* received quantity whose recorded and true price are value / quantity; the
\* lot is then as any other: the next call, if it is a closing lot for part
\* of the quantity, reduces it, and if it is a forward split of the new
\* symbol, rescales it.
C24_AsClaimed ==
    mode = "lots" =>
      \A i \in Calls :
        l_log[i].op = "process_stock_merger" =>
          LET g      == l_log[i].arg
              old    == get_currency_from_symbol(g[1].symbol)
              k      == MergerKey(g)
              price  == DDiv(g[2].value, g[2].quantity)
              before == MapGet(l_log[i].before, k)
              after  == MapGet(l_log[i].after, k)
          IN  /\ \A x \in Keys(l_log[i].after) : x[2] # old
              /\ Len(after) = Len(before) + 1
              /\ \A j \in DOMAIN before : after[j] = before[j]
              /\ MergerLot(i)[1] = g[2].quantity
              /\ MergerLot(i)[2] = price
              /\ MergerLot(i)[3] = price
              /\ (i + 1) \in Calls =>
                   LET next == l_log[i + 1]
                       then == MapGet(next.after, k)
                   IN  /\ ( /\ next.op = "get_and_reduce_holding"
                            /\ CloseKey(next.arg) = k
                            /\ Matching(after, next.arg) = {Len(after)}
                            /\ DLt(next.arg.quantity, g[2].quantity) )
                          => /\ next.err = ""
                             /\ then[Len(after)][1]
                                  = DSub(g[2].quantity, next.arg.quantity)
                       /\ ( /\ next.op = "process_stock_forwardsplit"
                            /\ get_currency_from_symbol(next.arg.symbol) = k[2] )
                          => /\ next.err = ""
                             /\ then[Len(after)][1]
                                  = DMul(g[2].quantity,
                                         FloatDiv(next.arg.split[1], next.arg.split[2]))

(***************************************************************************)
(* Properties of merge_dividend_and_withholding                            *)
(***************************************************************************)
DividendsDone == mode = "dividends" /\ d_call # <<>>

\* The groups of the entries as given, and the entries that are in a group
\* of at least two of which one is a dividend.
GivenGroups == DivGroups(d_call.given, <<>>, 1)

MergedGroups ==
    { g \in DOMAIN GivenGroups :
        /\ Len(GivenGroups[g]) >= 2
        /\ \E i \in DOMAIN GivenGroups[g] : d_call.given[GivenGroups[g][i]].meta.div }

InMergedGroup(e) ==
    \E g \in MergedGroups : InList(GivenGroups[g], e)

\* The sum of the amounts that the entries of the list es post to account a.
RECURSIVE AccountSum(_, _)
AccountSum(es, a) ==
    IF es = <<>> THEN 0
    ELSE SumOver([p \in DOMAIN d_call.given[Head(es)].postings |->
                    IF d_call.given[Head(es)].postings[p].account = a
                    THEN d_call.given[Head(es)].postings[p].units.number ELSE 0],
                 DOMAIN d_call.given[Head(es)].postings)
         + AccountSum(Tail(es), a)

\* C25 as stated: when merge_dividend_and_withholding returns, every group
\* of at least two transactions, one of them a dividend, is a single
\* transaction of the output, with one posting per account that carries the
\* sum of the group's amounts on the account; every other entry is returned
\* as it was given.
C25_AsClaimed ==
    (DividendsDone /\ d_call.err = "") =>
      /\ \A g \in MergedGroups :
           LET of == { j \in DOMAIN d_call.kept : InList(GivenGroups[g], d_call.kept[j]) }
           IN  /\ Cardinality(of) = 1
               /\ \A j \in of :
                    LET ps == d_call.entries[j].postings
                    IN  /\ \A p, q \in DOMAIN ps :
                              ps[p].account = ps[q].account => p = q
                        /\ \A p \in DOMAIN ps :
                              ps[p].units.number
                                = AccountSum(GivenGroups[g], ps[p].account)
      /\ \A e \in DOMAIN d_call.given :
           ~InMergedGroup(e) =>
             \E j \in DOMAIN d_call.kept :
               d_call.kept[j] = e /\ d_call.entries[j] = d_call.given[e]

====
